---- MODULE Spec2Model ----
(***************************************************************************)
(* A model of the laundry status backend: the occupancy reconciliation of  *)
(* internal/store (UpdateOccupancy, archiveRecord, prepareOccupancy), the  *)
(* state classifier of internal/scraper, and the notification worker pool  *)
(* of internal/notification (NewWorkerPool, Start, worker, Dispatch).      *)
(*                                                                         *)
(* Time is counted in whole seconds.                                       *)
(***************************************************************************)
EXTENDS Integers, Sequences, FiniteSets, TLC

\* ------------------------------------------------------------------ bounds
\* Number of reconciliation cycles explored.
MaxCycles == 3
\* Size of the worker pool (cfg.WorkerPool.Size).
PoolSize == 2
\* Number of Dispatch calls after which the producer stops.
MaxDispatch == 5

\* Number of Dispatch calls explored on the database with shared subscriptions.
MaxDeliveries == 3

\* Number of scrape cycles explored with the pool running.
MaxScrapes == 2

\* Number of HTTP requests followed through the rate limiter, and the burst
\* (parameter b) its limiters are created with.
MaxRequests == 3
Burst == 1

\* Number of reconciliations explored under every classifier configuration.
MaxClassified == 1

\* --------------------------------------------------------------- domains
Machines == {101, 102}
\* A snapshot lists as many items as there are machines: all of them, some
\* of them, or one of them twice.
MaxItems == Cardinality(Machines)
\* The configuration the service runs with: the three code sets of
\* config.ScraperConfig.
DefaultConfig == [StateIdleValues |-> {1}, StateOccupiedValues |-> {2},
                  StateFaultyValues |-> {3}]
\* The raw status codes the upstream API is taken to send.
StateCodes == {1, 2, 3}
\* The finish times the upstream API is taken to send.
FinishTimes == {1}

\* ----------------------------------------------------------------- state
VARIABLES
    cfg,                  \* Service.cfg: the configured code sets
    occupancy_opens,      \* table occupancy_opens: a set of OccupancyOpen rows
    occupancy_histories,  \* table occupancy_histories: a set of OccupancyHistory rows
    now,                  \* `now` of the latest UpdateOccupancy call
    allItems,             \* `allItems` of the latest UpdateOccupancy call
    currentOpenRecords,   \* what fetchAllOpenOccupancies returned to that call
    notifyIDs,            \* the machine IDs that call returned
    err,                  \* whether that call returned an error
    writes,               \* number of writes that call attempted
    writeFailed,          \* whether a write or the commit of that call failed
    phase,                \* "idle", "reconciling" while UpdateOccupancy runs
                          \* ("loaded" once it has read the open records,
                          \* "transaction" once its transaction is open), or
                          \* "returned" while the caller holds the result
    cycles,               \* number of UpdateOccupancy calls made
    calls,                \* the machine IDs ScrapeOnce has passed to Dispatch
                          \* in the current cycle, in call order
    run,                  \* the goroutine of Service.Run: where it is, its
                          \* timer, and the ScrapeOnce calls not yet returned
    jobs,                 \* WorkerPool.jobs: the buffered channel
    workers,              \* per worker goroutine: where it is and what it holds
    cancelled,            \* ctx.Done() is closed
    dispatcher,           \* the goroutine calling Dispatch: where it is, its job
    dispatched,           \* number of Dispatch calls that returned
    processed,            \* jobs for which sendNotificationsForMachine returned
    push_subscriptions,   \* table push_subscriptions: the endpoints (primary key)
    subscription_machine_mapping,  \* join table: <<endpoint, machine ID>>
    subscription_keys,    \* columns p256dh and auth of push_subscriptions,
                          \* by endpoint
    fetch,                \* the latest ScrapeOnce: whether its fetch loop
                          \* ended with an error, which machines the upstream
                          \* listed on pages it did not retrieve, and how far
                          \* it got
    machine_rows,         \* table machines: the machine IDs (primary key)
    ips,                  \* IPRateLimiter.ips: the limiter of each client IP
                          \* (0 while the map has no entry for it)
    limiters,             \* the rate.Limiter instances created so far: the
                          \* tokens each has left
    requests              \* per HTTP request in the middleware: where it is,
                          \* its client IP, what GetLimiter read and returned

storeVars == <<cfg, occupancy_opens, occupancy_histories, now, allItems,
               currentOpenRecords, notifyIDs, err, writes, writeFailed, phase, cycles,
               calls, run>>
poolVars == <<jobs, workers, cancelled, dispatcher, dispatched, processed,
              push_subscriptions, subscription_machine_mapping,
              subscription_keys>>
scraperVars == <<fetch, machine_rows>>
limiterVars == <<ips, limiters, requests>>
vars == <<cfg, occupancy_opens, occupancy_histories, now, allItems,
          currentOpenRecords, notifyIDs, err, writes, writeFailed, phase, cycles,
          calls, run, jobs, workers, cancelled, dispatcher, dispatched, processed,
          push_subscriptions, subscription_machine_mapping,
          subscription_keys, fetch, machine_rows, ips, limiters, requests>>

\* ------------------------------------------------------ state classifier
StateTypeIdle == "idle"
StateTypeOccupied == "occupied"
StateTypeFaulty == "faulty"
StateTypeUnknown == "unknown"

\* A classifier that takes every code it does not know for idle.
getStateTypeDefaultIdle(stateCode) ==
    IF stateCode \in cfg.StateOccupiedValues THEN StateTypeOccupied
    ELSE IF stateCode \in cfg.StateFaultyValues THEN StateTypeFaulty
    ELSE StateTypeIdle

getStateType(stateCode) ==
    IF stateCode \in cfg.StateIdleValues THEN StateTypeIdle
    ELSE IF stateCode \in cfg.StateOccupiedValues THEN StateTypeOccupied
    ELSE IF stateCode \in cfg.StateFaultyValues THEN StateTypeFaulty
    ELSE StateTypeUnknown

\* ------------------------------------------------------------ data shapes
\* An item carries a finish time or none (a nil FinishTimeParsed is the
\* empty set).  The finish time of an idle item is never read, so idle
\* items are listed without one.
ApiItems == {it \in [ID : Machines, State : StateCodes,
                     FinishTimeParsed : {{}} \cup {{t} : t \in FinishTimes}] :
               it.State \in DefaultConfig.StateIdleValues => it.FinishTimeParsed = {}}

Snapshots == UNION {[1..n -> ApiItems] : n \in 0..MaxItems}

\* The items of a snapshot with machine ID id, in order.
ItemsOf(items, id) == SelectSeq(items, LAMBDA it : it.ID = id)

SnapshotIDs(items) == {items[i].ID : i \in 1..Len(items)}

\* All orders in which a Go map with the keys `keys` may be ranged.
RangeOrders(keys) == {o \in [1..Cardinality(keys) -> keys] :
                        \A i, j \in 1..Cardinality(keys) : i # j => o[i] # o[j]}

\* -------------------------------------------------- store: pure helpers
\* prepareOccupancy without the test that the finish time is after now.
prepareOccupancyUnguarded(item, t) ==
    LET timeRemaining ==
            IF item.FinishTimeParsed # {}
            THEN (CHOOSE f \in item.FinishTimeParsed : TRUE) - t
            ELSE 0
        message ==
            CASE getStateType(item.State) = StateTypeOccupied -> "in use"
              [] getStateType(item.State) = StateTypeFaulty -> "faulty"
              [] getStateType(item.State) = StateTypeUnknown -> "unknown"
              [] OTHER -> ""
    IN [MachineID |-> item.ID, ObservedAt |-> t, Status |-> item.State,
        Message |-> message, TimeRemaining |-> timeRemaining]

\* int(item.FinishTimeParsed.Sub(now).Seconds()) for a finish time after now.
prepareOccupancy(item, t) ==
    LET timeRemaining ==
            IF item.FinishTimeParsed # {}
               /\ (CHOOSE f \in item.FinishTimeParsed : TRUE) > t
            THEN (CHOOSE f \in item.FinishTimeParsed : TRUE) - t
            ELSE 0
        message ==
            CASE getStateType(item.State) = StateTypeOccupied -> "in use"
              [] getStateType(item.State) = StateTypeFaulty -> "faulty"
              [] getStateType(item.State) = StateTypeUnknown -> "unknown"
              [] OTHER -> ""
    IN [MachineID |-> item.ID, ObservedAt |-> t, Status |-> item.State,
        Message |-> message, TimeRemaining |-> timeRemaining]

\* archiveRecord with the period always ended at the observation time.
historyRecordEndsNow(recordToArchive, observationTime) ==
    [MachineID |-> recordToArchive.MachineID,
     ObservedAt |-> observationTime,
     Status |-> recordToArchive.Status,
     Message |-> recordToArchive.Message,
     PeriodStart |-> recordToArchive.ObservedAt,
     PeriodEnd |-> observationTime]

\* archiveRecord keeping the observation time of the archived row.
historyRecordObservedAtStart(recordToArchive, observationTime) ==
    LET startTime == recordToArchive.ObservedAt
        periodEnd ==
            IF recordToArchive.TimeRemaining > 0
            THEN startTime + recordToArchive.TimeRemaining
            ELSE observationTime
    IN [MachineID |-> recordToArchive.MachineID,
        ObservedAt |-> startTime,
        Status |-> recordToArchive.Status,
        Message |-> recordToArchive.Message,
        PeriodStart |-> startTime,
        PeriodEnd |-> periodEnd]

\* archiveRecord ending the period at start + remainder whatever the
\* remainder is.
historyRecordAlwaysPredicted(recordToArchive, observationTime) ==
    LET startTime == recordToArchive.ObservedAt
    IN [MachineID |-> recordToArchive.MachineID,
        ObservedAt |-> observationTime,
        Status |-> recordToArchive.Status,
        Message |-> recordToArchive.Message,
        PeriodStart |-> startTime,
        PeriodEnd |-> startTime + recordToArchive.TimeRemaining]

\* The OccupancyHistory row archiveRecord builds.
historyRecord(recordToArchive, observationTime) ==
    LET startTime == recordToArchive.ObservedAt
        periodEnd ==
            IF recordToArchive.TimeRemaining > 0
            THEN startTime + recordToArchive.TimeRemaining
            ELSE observationTime
    IN [MachineID |-> recordToArchive.MachineID,
        ObservedAt |-> observationTime,
        Status |-> recordToArchive.Status,
        Message |-> recordToArchive.Message,
        PeriodStart |-> startTime,
        PeriodEnd |-> periodEnd]

\* ------------------------------------------------ store: the transaction
\* The map fetchAllOpenOccupancies builds from the rows of occupancy_opens.
fetchAllOpenOccupancies(rows) ==
    [id \in {r.MachineID : r \in rows} |->
        CHOOSE r \in rows : r.MachineID = id /\
            \A q \in rows : q.MachineID = id => q.ObservedAt <= r.ObservedAt]

\* A transaction in progress: the tables as the transaction sees them, the
\* map of open records not yet seen, the writes attempted, the index of
\* the write that fails, and the notify list built so far.
BeginTx(opens, histories, failAt) ==
    [opens |-> opens, histories |-> histories,
     current |-> fetchAllOpenOccupancies(opens),
     writes |-> 0, failAt |-> failAt, failed |-> FALSE, notify |-> <<>>]

WriteFails(tx) == tx.writes + 1 = tx.failAt

Failed(tx) == [tx EXCEPT !.writes = @ + 1, !.failed = TRUE]

\* The history insert written as an upsert on its key.
CreateHistoryUpsert(tx, row) ==
    IF WriteFails(tx)
    THEN Failed(tx)
    ELSE [tx EXCEPT !.writes = @ + 1,
                    !.histories = {h \in @ : ~(h.MachineID = row.MachineID
                                               /\ h.ObservedAt = row.ObservedAt)}
                                  \cup {row}]

\* The history insert on a table without its primary key.
CreateHistoryNoKey(tx, row) ==
    IF WriteFails(tx)
    THEN Failed(tx)
    ELSE [tx EXCEPT !.writes = @ + 1, !.histories = @ \cup {row}]

\* tx.Create(&historyRecord): (machine_id, observed_at) is the primary key.
CreateHistory(tx, row) ==
    IF WriteFails(tx)
       \/ \E h \in tx.histories :
              h.MachineID = row.MachineID /\ h.ObservedAt = row.ObservedAt
    THEN Failed(tx)
    ELSE [tx EXCEPT !.writes = @ + 1, !.histories = @ \cup {row}]

\* The open-session insert on a table without its primary key.
CreateOpenNoKey(tx, row) ==
    IF WriteFails(tx)
    THEN Failed(tx)
    ELSE [tx EXCEPT !.writes = @ + 1, !.opens = @ \cup {row}]

\* tx.Create(&newRecord): machine_id is the primary key.
CreateOpen(tx, row) ==
    IF WriteFails(tx) \/ \E o \in tx.opens : o.MachineID = row.MachineID
    THEN Failed(tx)
    ELSE [tx EXCEPT !.writes = @ + 1, !.opens = @ \cup {row}]

\* tx.Save(&updatedRecord): update the row with that key, insert it if none.
SaveOpen(tx, row) ==
    IF WriteFails(tx)
    THEN Failed(tx)
    ELSE [tx EXCEPT !.writes = @ + 1,
                    !.opens = {o \in @ : o.MachineID # row.MachineID} \cup {row}]

\* tx.Delete(&model.OccupancyOpen{}, id)
DeleteOpen(tx, id) ==
    IF WriteFails(tx)
    THEN Failed(tx)
    ELSE [tx EXCEPT !.writes = @ + 1,
                    !.opens = {o \in @ : o.MachineID # id}]

archiveRecord(tx, recordToArchive, observationTime) ==
    CreateHistory(tx, historyRecord(recordToArchive, observationTime))

\* The machine ID joins the list UpdateOccupancy returns.
appendNotify(tx, id) == [tx EXCEPT !.notify = Append(@, id)]

\* delete(currentOpenRecords, machineData.ID)
markSeen(tx, id) ==
    [tx EXCEPT !.current = [k \in (DOMAIN @) \ {id} |-> @[k]]]

\* The loop body with the test of the new state inverted.
processItemInverted(tx, machineData, t) ==
    IF machineData.ID \in DOMAIN tx.current
    THEN LET oldRecord == tx.current[machineData.ID]
         IN  IF machineData.State # oldRecord.Status
             THEN LET a == archiveRecord(tx, oldRecord, t)
                  IN  IF a.failed THEN a
                      ELSE IF getStateType(machineData.State) # StateTypeIdle
                      THEN LET d == DeleteOpen(a, oldRecord.MachineID)
                           IN  IF d.failed THEN d
                               ELSE markSeen(appendNotify(d, machineData.ID),
                                             machineData.ID)
                      ELSE LET s == SaveOpen(a, prepareOccupancy(machineData, t))
                           IN  IF s.failed THEN s
                               ELSE markSeen(s, machineData.ID)
             ELSE markSeen(tx, machineData.ID)
    ELSE IF getStateType(machineData.State) # StateTypeIdle
         THEN CreateOpen(tx, prepareOccupancy(machineData, t))
         ELSE tx

\* The loop body comparing the classes of the two status codes.
processItemByClass(tx, machineData, t) ==
    IF machineData.ID \in DOMAIN tx.current
    THEN LET oldRecord == tx.current[machineData.ID]
         IN  IF getStateType(machineData.State) # getStateType(oldRecord.Status)
             THEN LET a == archiveRecord(tx, oldRecord, t)
                  IN  IF a.failed THEN a
                      ELSE IF getStateType(machineData.State) = StateTypeIdle
                      THEN LET d == DeleteOpen(a, oldRecord.MachineID)
                           IN  IF d.failed THEN d
                               ELSE markSeen(appendNotify(d, machineData.ID),
                                             machineData.ID)
                      ELSE LET s == SaveOpen(a, prepareOccupancy(machineData, t))
                           IN  IF s.failed THEN s
                               ELSE markSeen(s, machineData.ID)
             ELSE markSeen(tx, machineData.ID)
    ELSE IF getStateType(machineData.State) # StateTypeIdle
         THEN CreateOpen(tx, prepareOccupancy(machineData, t))
         ELSE tx

\* The loop body opening a session for a machine first seen, idle or not.
processItemOpensIdle(tx, machineData, t) ==
    IF machineData.ID \in DOMAIN tx.current
    THEN LET oldRecord == tx.current[machineData.ID]
         IN  IF machineData.State # oldRecord.Status
             THEN LET a == archiveRecord(tx, oldRecord, t)
                  IN  IF a.failed THEN a
                      ELSE IF getStateType(machineData.State) = StateTypeIdle
                      THEN LET d == DeleteOpen(a, oldRecord.MachineID)
                           IN  IF d.failed THEN d
                               ELSE markSeen(appendNotify(d, machineData.ID),
                                             machineData.ID)
                      ELSE LET s == SaveOpen(a, prepareOccupancy(machineData, t))
                           IN  IF s.failed THEN s
                               ELSE markSeen(s, machineData.ID)
             ELSE markSeen(tx, machineData.ID)
    ELSE CreateOpen(tx, prepareOccupancy(machineData, t))

\* The loop body refreshing the open row of a machine whose status is the same.
processItemRefreshing(tx, machineData, t) ==
    IF machineData.ID \in DOMAIN tx.current
    THEN LET oldRecord == tx.current[machineData.ID]
         IN  IF machineData.State # oldRecord.Status
             THEN LET a == archiveRecord(tx, oldRecord, t)
                  IN  IF a.failed THEN a
                      ELSE IF getStateType(machineData.State) = StateTypeIdle
                      THEN LET d == DeleteOpen(a, oldRecord.MachineID)
                           IN  IF d.failed THEN d
                               ELSE markSeen(appendNotify(d, machineData.ID),
                                             machineData.ID)
                      ELSE LET s == SaveOpen(a, prepareOccupancy(machineData, t))
                           IN  IF s.failed THEN s
                               ELSE markSeen(s, machineData.ID)
             ELSE LET s == SaveOpen(tx, prepareOccupancy(machineData, t))
                  IN  IF s.failed THEN s ELSE markSeen(s, machineData.ID)
    ELSE IF getStateType(machineData.State) # StateTypeIdle
         THEN CreateOpen(tx, prepareOccupancy(machineData, t))
         ELSE tx

\* The body of the loop over allItems, for one item.
processItem(tx, machineData, t) ==
    IF machineData.ID \in DOMAIN tx.current
    THEN LET oldRecord == tx.current[machineData.ID]
         IN  IF machineData.State # oldRecord.Status
             THEN LET a == archiveRecord(tx, oldRecord, t)
                  IN  IF a.failed THEN a
                      ELSE IF getStateType(machineData.State) = StateTypeIdle
                      THEN LET d == DeleteOpen(a, oldRecord.MachineID)
                           IN  IF d.failed THEN d
                               ELSE markSeen(appendNotify(d, machineData.ID),
                                             machineData.ID)
                      ELSE LET s == SaveOpen(a, prepareOccupancy(machineData, t))
                           IN  IF s.failed THEN s
                               ELSE markSeen(s, machineData.ID)
             ELSE markSeen(tx, machineData.ID)
    ELSE IF getStateType(machineData.State) # StateTypeIdle
         THEN CreateOpen(tx, prepareOccupancy(machineData, t))
         ELSE tx

RECURSIVE processItems(_, _, _, _)
processItems(tx, items, i, t) ==
    IF tx.failed \/ i > Len(items) THEN tx
    ELSE processItems(processItem(tx, items[i], t), items, i + 1, t)

\* The loop body without the delete of the open row.
processRemainingNoDelete(tx, remainingRecord, t) ==
    archiveRecord(tx, remainingRecord, t)

\* The loop body archiving the record with its remainder dropped.
processRemainingNoRemainder(tx, remainingRecord, t) ==
    LET a == archiveRecord(tx, [remainingRecord EXCEPT !.TimeRemaining = 0], t)
    IN  IF a.failed THEN a ELSE DeleteOpen(a, remainingRecord.MachineID)

\* The body of the loop over the open records left in the map, for one.
processRemaining(tx, remainingRecord, t) ==
    LET a == archiveRecord(tx, remainingRecord, t)
    IN  IF a.failed THEN a ELSE DeleteOpen(a, remainingRecord.MachineID)

\* An UpdateOccupancy without the loop over the records left in the map.
processNoneRemaining(tx, order, i, t) == tx

\* The loop over currentOpenRecords, ranged in the order `order`.
RECURSIVE processAllRemaining(_, _, _, _)
processAllRemaining(tx, order, i, t) ==
    IF tx.failed \/ i > Len(order) THEN tx
    ELSE IF order[i] \in DOMAIN tx.current
         THEN processAllRemaining(processRemaining(tx, tx.current[order[i]], t),
                                  order, i + 1, t)
         ELSE processAllRemaining(tx, order, i + 1, t)

\* The function passed to Transaction, run to its return.
transactionBody(tx, items, order, t) ==
    processAllRemaining(processItems(tx, items, 1, t), order, 1, t)

\* The writes issued outside the transaction: nothing is rolled back.
TransactionNoRollback(opens, histories, done) ==
    [opens |-> done.opens, histories |-> done.histories,
     err |-> done.failed \/ WriteFails(done),
     notify |-> IF done.failed \/ WriteFails(done) THEN <<>> ELSE done.notify,
     writes |-> done.writes, failed |-> done.failed \/ WriteFails(done)]

\* An UpdateOccupancy that returns the list built so far with its error.
TransactionKeepingList(opens, histories, done) ==
    IF done.failed \/ WriteFails(done)
    THEN [opens |-> opens, histories |-> histories, err |-> TRUE,
          notify |-> done.notify, writes |-> done.writes, failed |-> TRUE]
    ELSE [opens |-> done.opens, histories |-> done.histories, err |-> FALSE,
          notify |-> done.notify, writes |-> done.writes, failed |-> FALSE]

\* db.Transaction: commit what the body wrote when it returns nil and the
\* commit succeeds, roll everything back otherwise.
Transaction(opens, histories, done) ==
    IF done.failed \/ WriteFails(done)
    THEN [opens |-> opens, histories |-> histories, err |-> TRUE,
          notify |-> <<>>, writes |-> done.writes, failed |-> TRUE]
    ELSE [opens |-> done.opens, histories |-> done.histories, err |-> FALSE,
          notify |-> done.notify, writes |-> done.writes, failed |-> FALSE]

\* UpdateOccupancy when the read of the open records fails: it returns
\* before the transaction begins.
fetchFailed(opens, histories) ==
    [opens |-> opens, histories |-> histories, err |-> TRUE,
     notify |-> <<>>, writes |-> 0, failed |-> FALSE]

\* UpdateOccupancy as a function of the tables and its arguments, once the
\* open records are read; failAt 0 injects no failure.
UpdateOccupancyResult(opens, histories, t, items, order, failAt) ==
    Transaction(opens, histories,
        transactionBody(BeginTx(opens, histories, failAt), items, order, t))

\* The open records the loop over allItems leaves in the map.
remainingIDs(opens, histories, t, items, failAt) ==
    DOMAIN processItems(BeginTx(opens, histories, failAt), items, 1, t).current

\* The writes UpdateOccupancy attempts when none is made to fail.
writesOf(opens, histories, t, items) ==
    UpdateOccupancyResult(opens, histories, t, items,
        CHOOSE o \in RangeOrders(remainingIDs(opens, histories, t, items, 0)) : TRUE,
        0).writes

\* ----------------------------------------------------------- store: steps
\* Service.Run before it is called: no timer yet, no ScrapeOnce in flight.
\* `entered` is the number of UpdateOccupancy calls made when the latest
\* ScrapeOnce was entered, `overran` whether that ScrapeOnce has lasted
\* longer than cfg.Scraper.Interval.
NewRun == [pc |-> "new", timer |-> "none", inflight |-> 0, entered |-> 0,
           overran |-> FALSE]

\* No ScrapeOnce has run yet.
NoFetch == [err |-> FALSE, unfetched |-> {}, step |-> "none"]

\* The client IPs requests come from, and the requests followed.
ClientIPs == {"a", "b"}
RequestIDs == 1..MaxRequests

\* A request that has not reached the middleware.
NewRequest == [pc |-> "new", ip |-> "", exists |-> FALSE, limiter |-> 0]

\* NewIPRateLimiter(r, b): an empty map.
NewIPRateLimiter ==
    /\ ips = [ip \in ClientIPs |-> 0]
    /\ limiters = <<>>
    /\ requests = [q \in RequestIDs |-> NewRequest]

Returned(r, t, items) ==
    /\ occupancy_opens' = r.opens
    /\ occupancy_histories' = r.histories
    /\ now' = t
    /\ allItems' = items
    /\ currentOpenRecords' = occupancy_opens
    /\ notifyIDs' = r.notify
    /\ err' = r.err
    /\ writes' = r.writes
    /\ writeFailed' = r.failed
    /\ phase' = "returned"
    /\ cycles' = cycles + 1
    /\ calls' = <<>>
    /\ UNCHANGED run

\* One call UpdateOccupancy(ctx, now, allItems, getStateType), from its
\* entry to its return, in which the database refuses a write only for a
\* key that exists.
UpdateOccupancy ==
    /\ phase = "idle"
    /\ cycles < MaxCycles
    /\ \E t \in {now, now + 1}, items \in Snapshots :
         \E order \in RangeOrders(remainingIDs(occupancy_opens,
                                      occupancy_histories, t, items, 0)) :
            Returned(UpdateOccupancyResult(occupancy_opens, occupancy_histories,
                                           t, items, order, 0), t, items)
    /\ UNCHANGED <<cfg, poolVars, scraperVars, limiterVars>>

\* One call UpdateOccupancy in which the read of the open records, one of
\* the writes or the commit fails.
UpdateOccupancyFailing ==
    /\ phase = "idle"
    /\ cycles < MaxCycles
    /\ \E t \in {now, now + 1}, items \in Snapshots :
        \/ Returned(fetchFailed(occupancy_opens, occupancy_histories), t, items)
        \/ \E failAt \in 1..(writesOf(occupancy_opens, occupancy_histories, t, items) + 1) :
             \E order \in RangeOrders(remainingIDs(occupancy_opens,
                                          occupancy_histories, t, items, failAt)) :
                Returned(UpdateOccupancyResult(occupancy_opens, occupancy_histories,
                                               t, items, order, failAt), t, items)
    /\ UNCHANGED <<cfg, poolVars, scraperVars, limiterVars>>

\* The caller is done with the cycle: its arguments and results are dropped.
CycleDone ==
    /\ phase = "returned"
    /\ phase' = "idle"
    /\ allItems' = <<>>
    /\ currentOpenRecords' = {}
    /\ notifyIDs' = <<>>
    /\ err' = FALSE
    /\ writes' = 0
    /\ writeFailed' = FALSE
    /\ calls' = <<>>
    /\ UNCHANGED <<cfg, occupancy_opens, occupancy_histories, now, cycles, run>>
    /\ UNCHANGED <<poolVars, scraperVars, limiterVars>>

\* Empty tables, no call made yet.
EmptyStore ==
    /\ occupancy_opens = {}
    /\ occupancy_histories = {}
    /\ now = 0
    /\ allItems = <<>>
    /\ currentOpenRecords = {}
    /\ notifyIDs = <<>>
    /\ err = FALSE
    /\ writes = 0
    /\ writeFailed = FALSE
    /\ phase = "idle"
    /\ cycles = 0
    /\ calls = <<>>
    /\ run = NewRun
    /\ fetch = NoFetch
    /\ NewIPRateLimiter

InitStore == cfg = DefaultConfig /\ EmptyStore

\* --------------------------------------------------------- worker pool
\* A buffer twice the pool size.
JobsCapacityDouble(size) == 2 * size

\* make(chan int64, size): the capacity of the jobs channel.
JobsCapacity(size) == size

\* The goroutines Start launches: one per unit of size.
WorkerIDs == 1..PoolSize

\* The push endpoints, and machines.display_name as a string of characters.
Endpoints == {"e1", "e2"}
DisplayNames == [id \in Machines |-> IF id = 101 THEN <<"W", "1">> ELSE <<>>]

\* http.StatusGone, and the status of a delivered push.
StatusGone == 410
StatusCreated == 201

\* What sender.Send can return: an error, or a response with a status.
SendResults == {[err |-> TRUE, StatusCode |-> 0],
                [err |-> FALSE, StatusCode |-> StatusGone],
                [err |-> FALSE, StatusCode |-> StatusCreated]}

\* fmt.Sprintf("%d", machineID): the decimal digits of a positive number.
Digits == <<"0", "1", "2", "3", "4", "5", "6", "7", "8", "9">>
RECURSIVE Sprintf_d(_)
Sprintf_d(n) ==
    IF n < 10 THEN <<Digits[n + 1]>>
    ELSE Append(Sprintf_d(n \div 10), Digits[(n % 10) + 1])

\* A worker goroutine that holds no job, at position pc.  While it holds
\* one, `step` is its position in sendNotificationsForMachine, lookupErr and
\* labelErr are the errors of its two lookups, i is the index of the loop
\* over subscriptions, and sends are the calls of sendNotification so far:
\* whom Send was called for, with which label, what it returned, and
\* whether the subscription was then deleted ("ok"), the delete failed
\* ("failed"), or none was issued ("none").
Worker(pc) ==
    [pc |-> pc, job |-> 0, step |-> "none", lookupErr |-> FALSE,
     subscriptions |-> <<>>, labelErr |-> FALSE, machineLabel |-> <<>>,
     i |-> 0, sends |-> <<>>]

\* A database call made with ctx: it fails once ctx is cancelled, and can
\* fail for reasons of the database at any time.
DBCallFails == IF cancelled THEN {TRUE} ELSE {TRUE, FALSE}

\* The rows the JOIN of FetchSubscriptions selects for machineID.
BoundSubscriptions(machineID) ==
    {e \in push_subscriptions :
        <<e, machineID>> \in subscription_machine_mapping}

\* NewWorkerPool; no goroutine runs before Start.
NewWorkerPool ==
    /\ jobs = <<>>
    /\ workers = [w \in WorkerIDs |-> Worker("new")]
    /\ cancelled = FALSE
    /\ dispatcher = [pc |-> "idle", job |-> 0]
    /\ dispatched = 0
    /\ processed = <<>>

\* A new pool on a database with one subscription, bound to machine 101.
InitPool ==
    /\ NewWorkerPool
    /\ push_subscriptions = {"e1"}
    /\ subscription_machine_mapping = {<<"e1", 101>>}
    /\ subscription_keys = [e \in {"e1"} |-> [P256DH |-> "p1", Auth |-> "a1"]]
    /\ machine_rows = Machines

\* WorkerPool.Start: every worker goroutine reaches its select.
Start ==
    /\ \A w \in WorkerIDs : workers[w].pc = "new"
    /\ workers' = [w \in WorkerIDs |-> Worker("select")]
    /\ UNCHANGED <<jobs, cancelled, dispatcher, dispatched, processed,
                   push_subscriptions, subscription_machine_mapping,
                   subscription_keys, fetch, machine_rows,
                   limiterVars>>
    /\ UNCHANGED storeVars

\* The caller enters Dispatch(machineID), as long as fewer than `limit`
\* calls have returned.
DispatchCallUpTo(limit) ==
    /\ dispatcher.pc = "idle"
    /\ dispatched < limit
    /\ \E machineID \in Machines :
          dispatcher' = [pc |-> "sending", job |-> machineID]
    /\ UNCHANGED <<jobs, workers, cancelled, dispatched, processed,
                   push_subscriptions, subscription_machine_mapping,
                   subscription_keys, fetch, machine_rows,
                   limiterVars>>
    /\ UNCHANGED storeVars

DispatchCall == DispatchCallUpTo(MaxDispatch)

\* A send that gives the job up when the channel is full.
DispatchReturnDropping ==
    /\ dispatcher.pc = "sending"
    /\ jobs' = IF Len(jobs) < JobsCapacity(PoolSize)
               THEN Append(jobs, dispatcher.job) ELSE jobs
    /\ dispatcher' = [pc |-> "idle", job |-> 0]
    /\ dispatched' = dispatched + 1
    /\ UNCHANGED <<workers, cancelled, processed,
                   push_subscriptions, subscription_machine_mapping,
                   subscription_keys, fetch, machine_rows,
                   limiterVars>>
    /\ UNCHANGED storeVars

\* wp.jobs <- machineID completes, which needs room in the channel, and
\* Dispatch returns.
DispatchReturn ==
    /\ dispatcher.pc = "sending"
    /\ Len(jobs) < JobsCapacity(PoolSize)
    /\ jobs' = Append(jobs, dispatcher.job)
    /\ dispatcher' = [pc |-> "idle", job |-> 0]
    /\ dispatched' = dispatched + 1
    /\ UNCHANGED <<workers, cancelled, processed,
                   push_subscriptions, subscription_machine_mapping,
                   subscription_keys, fetch, machine_rows,
                   limiterVars>>
    /\ UNCHANGED storeVars

\* A receive that leaves the job in the channel.
WorkerTakePeek(w) ==
    /\ workers[w].pc = "select"
    /\ jobs # <<>>
    /\ workers' = [workers EXCEPT ![w] =
                      [Worker("processing") EXCEPT !.job = Head(jobs),
                                                   !.step = "lookup"]]
    /\ UNCHANGED <<jobs, cancelled, dispatcher, dispatched, processed,
                   push_subscriptions, subscription_machine_mapping,
                   subscription_keys, fetch, machine_rows,
                   limiterVars>>
    /\ UNCHANGED storeVars

\* The select of worker w receives from wp.jobs and the worker enters
\* sendNotificationsForMachine.  A select with several ready cases picks
\* any of them, so this does not wait for ~cancelled.
WorkerTake(w) ==
    /\ workers[w].pc = "select"
    /\ jobs # <<>>
    /\ workers' = [workers EXCEPT ![w] =
                      [Worker("processing") EXCEPT !.job = Head(jobs),
                                                   !.step = "lookup"]]
    /\ jobs' = Tail(jobs)
    /\ UNCHANGED <<cancelled, dispatcher, dispatched, processed,
                   push_subscriptions, subscription_machine_mapping,
                   subscription_keys, fetch, machine_rows,
                   limiterVars>>
    /\ UNCHANGED storeVars

\* The subscriber lookup ending the goroutine when it fails.
FetchSubscriptionsFatal(w) ==
    /\ workers[w].pc = "processing" /\ workers[w].step = "lookup"
    /\ \E fails \in DBCallFails :
          IF fails
          THEN workers' = [workers EXCEPT ![w].lookupErr = TRUE,
                                          ![w].pc = "exited"]
          ELSE \E found \in RangeOrders(BoundSubscriptions(workers[w].job)) :
                  workers' = [workers EXCEPT
                                 ![w].subscriptions = found,
                                 ![w].step = IF found = <<>> THEN "return"
                                             ELSE "label"]
    /\ UNCHANGED <<jobs, cancelled, dispatcher, dispatched, processed,
                   push_subscriptions, subscription_machine_mapping,
                   subscription_keys, fetch, machine_rows,
                   limiterVars>>
    /\ UNCHANGED storeVars

\* The subscriber lookup.  On an error, and on an empty result, the
\* function returns; the rows come in any order.
FetchSubscriptions(w) ==
    /\ workers[w].pc = "processing" /\ workers[w].step = "lookup"
    /\ \E fails \in DBCallFails :
          IF fails
          THEN workers' = [workers EXCEPT ![w].lookupErr = TRUE,
                                          ![w].step = "return"]
          ELSE \E found \in RangeOrders(BoundSubscriptions(workers[w].job)) :
                  workers' = [workers EXCEPT
                                 ![w].subscriptions = found,
                                 ![w].step = IF found = <<>> THEN "return"
                                             ELSE "label"]
    /\ UNCHANGED <<jobs, cancelled, dispatcher, dispatched, processed,
                   push_subscriptions, subscription_machine_mapping,
                   subscription_keys, fetch, machine_rows,
                   limiterVars>>
    /\ UNCHANGED storeVars

\* The display-name lookup ending the job when it fails.
FetchMachineAborting(w) ==
    /\ workers[w].pc = "processing" /\ workers[w].step = "label"
    /\ \E fails \in DBCallFails :
          workers' = [workers EXCEPT
              ![w].labelErr = fails,
              ![w].machineLabel =
                  IF DisplayNames[workers[w].job] # <<>>
                  THEN DisplayNames[workers[w].job]
                  ELSE Sprintf_d(workers[w].job),
              ![w].i = 1,
              ![w].step = IF fails THEN "return" ELSE "send"]
    /\ UNCHANGED <<jobs, cancelled, dispatcher, dispatched, processed,
                   push_subscriptions, subscription_machine_mapping,
                   subscription_keys, fetch, machine_rows,
                   limiterVars>>
    /\ UNCHANGED storeVars

\* The display-name lookup: the label is the name when the lookup succeeds
\* with a non-empty name, and the machine ID in decimal otherwise.
FetchMachine(w) ==
    /\ workers[w].pc = "processing" /\ workers[w].step = "label"
    /\ \E fails \in DBCallFails :
          workers' = [workers EXCEPT
              ![w].labelErr = fails,
              ![w].machineLabel =
                  IF ~fails /\ DisplayNames[workers[w].job] # <<>>
                  THEN DisplayNames[workers[w].job]
                  ELSE Sprintf_d(workers[w].job),
              ![w].i = 1,
              ![w].step = "send"]
    /\ UNCHANGED <<jobs, cancelled, dispatcher, dispatched, processed,
                   push_subscriptions, subscription_machine_mapping,
                   subscription_keys, fetch, machine_rows,
                   limiterVars>>
    /\ UNCHANGED storeVars

\* sendNotification up to the return of wp.sender.Send for the i-th
\* subscription.  Send takes no context.
Send(w) ==
    /\ workers[w].pc = "processing" /\ workers[w].step = "send"
    /\ \E result \in SendResults :
          workers' = [workers EXCEPT
              ![w].sends = Append(@,
                  [Endpoint |-> workers[w].subscriptions[workers[w].i],
                   Label |-> workers[w].machineLabel,
                   err |-> result.err,
                   StatusCode |-> result.StatusCode,
                   deleted |-> "none"]),
              ![w].step = "sent"]
    /\ UNCHANGED <<jobs, cancelled, dispatcher, dispatched, processed,
                   push_subscriptions, subscription_machine_mapping,
                   subscription_keys, fetch, machine_rows,
                   limiterVars>>
    /\ UNCHANGED storeVars

\* The loop over subscriptions calling Send again after a Send error.
AdvanceRetrying(wk, deleted) ==
    [wk EXCEPT !.sends[wk.i].deleted = deleted,
               !.i = IF wk.sends[Len(wk.sends)].err THEN @ ELSE @ + 1,
               !.step = IF wk.sends[Len(wk.sends)].err
                           \/ wk.i < Len(wk.subscriptions)
                        THEN "send" ELSE "return"]

\* The loop over subscriptions left when a delete fails.
AdvanceUnlessDeleteFailed(wk, deleted) ==
    [wk EXCEPT !.sends[wk.i].deleted = deleted,
               !.i = @ + 1,
               !.step = IF wk.i < Len(wk.subscriptions) /\ deleted # "failed"
                        THEN "send" ELSE "return"]

\* The worker after the i-th subscription: the next one, or the return.
Advance(wk, deleted) ==
    [wk EXCEPT !.sends[wk.i].deleted = deleted,
               !.i = @ + 1,
               !.step = IF wk.i < Len(wk.subscriptions) THEN "send" ELSE "return"]

\* A delete issued after every response, whatever its status.
IsExpiredAnyStatus(resp) == ~resp.err

\* The test of sendNotification for an expired subscription: Send returned
\* no error, and a response with status 410.
IsExpired(resp) == ~resp.err /\ resp.StatusCode = StatusGone

\* A delete that reports an error when it finds no row.
DeleteStrict(fails, endpoint) ==
    IF fails \/ endpoint \notin push_subscriptions THEN "failed" ELSE "ok"

\* wp.db.WithContext(ctx).Delete(&sub): a delete by primary key, which is
\* no error when the row is already gone.
Delete(fails, endpoint) == IF fails THEN "failed" ELSE "ok"

\* A sendNotification that, on status 410, also closes the open session of
\* the machine the job is about.
HandleResponseClosingSession(w) ==
    /\ workers[w].pc = "processing" /\ workers[w].step = "sent"
    /\ LET resp == workers[w].sends[workers[w].i]
       IN  IF IsExpired(resp)
           THEN /\ push_subscriptions' = push_subscriptions \ {resp.Endpoint}
                /\ subscription_keys' =
                       [e \in (DOMAIN subscription_keys) \ {resp.Endpoint} |->
                           subscription_keys[e]]
                /\ occupancy_opens' =
                       {o \in occupancy_opens : o.MachineID # workers[w].job}
                /\ workers' = [workers EXCEPT ![w] = Advance(@, "ok")]
           ELSE /\ push_subscriptions' = push_subscriptions
                /\ subscription_keys' = subscription_keys
                /\ occupancy_opens' = occupancy_opens
                /\ workers' = [workers EXCEPT ![w] = Advance(@, "none")]
    /\ UNCHANGED <<jobs, cancelled, dispatcher, dispatched, processed,
                   subscription_machine_mapping, fetch, machine_rows,
                   limiterVars>>
    /\ UNCHANGED <<cfg, occupancy_histories, now, allItems,
                   currentOpenRecords, notifyIDs, err, writes, writeFailed,
                   phase, cycles, calls, run>>

\* The rest of sendNotification: an error of Send is logged; on status 410
\* the subscription is deleted, and a failure of the delete is logged; then
\* the loop goes on.
HandleResponse(w) ==
    /\ workers[w].pc = "processing" /\ workers[w].step = "sent"
    /\ LET resp == workers[w].sends[workers[w].i]
       IN  IF IsExpired(resp)
           THEN \E fails \in DBCallFails :
                   LET deleted == Delete(fails, resp.Endpoint)
                   IN  /\ push_subscriptions' =
                              IF deleted = "ok"
                              THEN push_subscriptions \ {resp.Endpoint}
                              ELSE push_subscriptions
                       /\ subscription_keys' =
                              IF deleted = "ok"
                              THEN [e \in (DOMAIN subscription_keys)
                                             \ {resp.Endpoint} |->
                                       subscription_keys[e]]
                              ELSE subscription_keys
                       /\ workers' = [workers EXCEPT ![w] = Advance(@, deleted)]
           ELSE /\ push_subscriptions' = push_subscriptions
                /\ subscription_keys' = subscription_keys
                /\ workers' = [workers EXCEPT ![w] = Advance(@, "none")]
    /\ UNCHANGED <<jobs, cancelled, dispatcher, dispatched, processed,
                   subscription_machine_mapping, fetch, machine_rows,
                   limiterVars>>
    /\ UNCHANGED storeVars

\* sendNotificationsForMachine returns and worker w is back at its select.
WorkerDone(w) ==
    /\ workers[w].pc = "processing" /\ workers[w].step = "return"
    /\ processed' = Append(processed, workers[w].job)
    /\ workers' = [workers EXCEPT ![w] = Worker("select")]
    /\ UNCHANGED <<jobs, cancelled, dispatcher, dispatched,
                   push_subscriptions, subscription_machine_mapping,
                   subscription_keys, fetch, machine_rows,
                   limiterVars>>
    /\ UNCHANGED storeVars

\* The select of worker w receives from ctx.Done(): the goroutine returns.
WorkerExit(w) ==
    /\ workers[w].pc = "select"
    /\ cancelled
    /\ workers' = [workers EXCEPT ![w] = Worker("exited")]
    /\ UNCHANGED <<jobs, cancelled, dispatcher, dispatched, processed,
                   push_subscriptions, subscription_machine_mapping,
                   subscription_keys, fetch, machine_rows,
                   limiterVars>>
    /\ UNCHANGED storeVars

\* The context handed to Start is cancelled.
Cancel ==
    /\ ~cancelled
    /\ cancelled' = TRUE
    /\ UNCHANGED <<jobs, workers, dispatcher, dispatched, processed,
                   push_subscriptions, subscription_machine_mapping,
                   subscription_keys, fetch, machine_rows,
                   limiterVars>>
    /\ UNCHANGED storeVars

\* Two subscriptions: e1 is bound to both machines, e2 to machine 101.
InitSubscriptions ==
    /\ push_subscriptions = Endpoints
    /\ subscription_machine_mapping =
           {<<"e1", 101>>, <<"e1", 102>>, <<"e2", 101>>}
    /\ subscription_keys = [e \in Endpoints |-> [P256DH |-> "p1", Auth |-> "a1"]]
    /\ machine_rows = Machines

Init == InitStore /\ InitPool

NextStore == UpdateOccupancy \/ CycleDone

SpecStore == Init /\ [][NextStore]_vars

NextStoreFail == UpdateOccupancy \/ UpdateOccupancyFailing \/ CycleDone

SpecStoreFail == Init /\ [][NextStoreFail]_vars

NextPool ==
    \/ Start
    \/ DispatchCall
    \/ DispatchReturn
    \/ \E w \in WorkerIDs : WorkerTake(w)
    \/ \E w \in WorkerIDs : FetchSubscriptions(w)
    \/ \E w \in WorkerIDs : FetchMachine(w)
    \/ \E w \in WorkerIDs : Send(w)
    \/ \E w \in WorkerIDs : HandleResponse(w)
    \/ \E w \in WorkerIDs : WorkerDone(w)
    \/ \E w \in WorkerIDs : WorkerExit(w)
    \/ Cancel

SpecPool == Init /\ [][NextPool]_vars

\* The pool under a scheduler that lets every goroutine that can take a
\* step take one, with database and delivery calls that return.
WorkerFairness(w) ==
    /\ WF_vars(WorkerTake(w))
    /\ WF_vars(FetchSubscriptions(w))
    /\ WF_vars(FetchMachine(w))
    /\ WF_vars(Send(w))
    /\ WF_vars(HandleResponse(w))
    /\ WF_vars(WorkerDone(w))
    /\ WF_vars(WorkerExit(w))

SpecPoolFair == SpecPool /\ \A w \in WorkerIDs : WorkerFairness(w)

\* The pool on a database with subscriptions that machines share.
InitDelivery == InitStore /\ NewWorkerPool /\ InitSubscriptions

NextDelivery ==
    \/ Start
    \/ DispatchCallUpTo(MaxDeliveries)
    \/ DispatchReturn
    \/ \E w \in WorkerIDs : WorkerTake(w)
    \/ \E w \in WorkerIDs : FetchSubscriptions(w)
    \/ \E w \in WorkerIDs : FetchMachine(w)
    \/ \E w \in WorkerIDs : Send(w)
    \/ \E w \in WorkerIDs : HandleResponse(w)
    \/ \E w \in WorkerIDs : WorkerDone(w)
    \/ \E w \in WorkerIDs : WorkerExit(w)
    \/ Cancel

SpecDelivery == InitDelivery /\ [][NextDelivery]_vars

\* ------------------------------------------------- scraper: ScrapeOnce
\* ScrapeOnce has fetched a snapshot and enters UpdateOccupancy; Run has
\* started the pool before its first cycle, and a cancelled context makes
\* the fetch fail, which ends the cycle before the store is called.  The
\* call entered after MaxScrapes cycles is left in progress.
ScrapeBegin ==
    /\ phase = "idle"
    /\ ~cancelled
    /\ \A w \in WorkerIDs : workers[w].pc # "new"
    /\ phase' = "reconciling"
    /\ UNCHANGED <<cfg, occupancy_opens, occupancy_histories, now, allItems,
                   currentOpenRecords, notifyIDs, err, writes, writeFailed,
                   cycles, calls, run>>
    /\ UNCHANGED <<poolVars, scraperVars, limiterVars>>

\* UpdateOccupancy commits and returns the notify list to ScrapeOnce, which
\* calls it with an empty snapshot too when the fetch succeeded.
ScrapeCommit ==
    /\ phase = "reconciling"
    /\ cycles < MaxScrapes
    /\ ~cancelled
    /\ \E t \in {now, now + 1}, items \in Snapshots :
         \E order \in RangeOrders(remainingIDs(occupancy_opens,
                                      occupancy_histories, t, items, 0)) :
            Returned(UpdateOccupancyResult(occupancy_opens, occupancy_histories,
                                           t, items, order, 0), t, items)
    /\ UNCHANGED <<cfg, poolVars, scraperVars, limiterVars>>

\* UpdateOccupancy returns an error to ScrapeOnce: the read of the open
\* records failed, or a write or the commit did and the transaction was
\* rolled back.
ScrapeAbort ==
    /\ phase = "reconciling"
    /\ cycles < MaxScrapes
    /\ \E t \in {now, now + 1}, items \in Snapshots :
        \/ Returned(fetchFailed(occupancy_opens, occupancy_histories), t, items)
        \/ \E failAt \in 1..(writesOf(occupancy_opens, occupancy_histories, t, items) + 1) :
             \E order \in RangeOrders(remainingIDs(occupancy_opens,
                                          occupancy_histories, t, items, failAt)) :
                Returned(UpdateOccupancyResult(occupancy_opens, occupancy_histories,
                                               t, items, order, failAt), t, items)
    /\ UNCHANGED <<cfg, poolVars, scraperVars, limiterVars>>

\* The next iteration of `for _, machineID := range machineIDsToNotify`:
\* ScrapeOnce enters Dispatch(machineID).
DispatchNotify ==
    /\ phase = "returned"
    /\ dispatcher.pc = "idle"
    /\ Len(calls) < Len(notifyIDs)
    /\ LET machineID == notifyIDs[Len(calls) + 1]
       IN /\ dispatcher' = [pc |-> "sending", job |-> machineID]
          /\ calls' = Append(calls, machineID)
    /\ UNCHANGED <<cfg, occupancy_opens, occupancy_histories, now, allItems,
                   currentOpenRecords, notifyIDs, err, writes, writeFailed,
                   phase, cycles, run>>
    /\ UNCHANGED <<jobs, workers, cancelled, dispatched, processed,
                   push_subscriptions, subscription_machine_mapping,
                   subscription_keys, fetch, machine_rows,
                   limiterVars>>

\* A ScrapeOnce that returns whether or not the loop has run.
ScrapeReturnEarly ==
    /\ dispatcher.pc = "idle"
    /\ CycleDone

\* The loop is over, its last Dispatch has returned, and ScrapeOnce returns.
ScrapeReturn ==
    /\ dispatcher.pc = "idle"
    /\ Len(calls) = Len(notifyIDs)
    /\ CycleDone

\* The scraper driving the store and the pool.
NextScrape ==
    \/ Start
    \/ ScrapeBegin
    \/ ScrapeCommit
    \/ ScrapeAbort
    \/ DispatchNotify
    \/ DispatchReturn
    \/ ScrapeReturn
    \/ \E w \in WorkerIDs : WorkerTake(w)
    \/ \E w \in WorkerIDs : FetchSubscriptions(w)
    \/ \E w \in WorkerIDs : FetchMachine(w)
    \/ \E w \in WorkerIDs : Send(w)
    \/ \E w \in WorkerIDs : HandleResponse(w)
    \/ \E w \in WorkerIDs : WorkerDone(w)
    \/ \E w \in WorkerIDs : WorkerExit(w)
    \/ Cancel

SpecScrape == Init /\ [][NextScrape]_vars


\* ------------------------------------------------------- scraper: Run
\* Run has started the pool and calls ScrapeOnce for the first time.
RunFirstScrape ==
    /\ run.pc = "new"
    /\ \A w \in WorkerIDs : workers[w].pc # "new"
    /\ run' = [run EXCEPT !.pc = "scraping", !.inflight = @ + 1,
                          !.entered = cycles, !.overran = FALSE]
    /\ UNCHANGED <<cfg, occupancy_opens, occupancy_histories, now, allItems,
                   currentOpenRecords, notifyIDs, err, writes, writeFailed,
                   phase, cycles, calls>>
    /\ UNCHANGED <<poolVars, scraperVars, limiterVars>>

\* The ScrapeOnce that Run called reaches its call of UpdateOccupancy.
RunUpdateOccupancy ==
    /\ run.pc = "scraping"
    /\ cycles = run.entered
    /\ ScrapeBegin

\* cfg.Scraper.Interval passes while ScrapeOnce is still running.
IntervalPasses ==
    /\ run.pc = "scraping"
    /\ ~run.overran
    /\ run' = [run EXCEPT !.overran = TRUE]
    /\ UNCHANGED <<cfg, occupancy_opens, occupancy_histories, now, allItems,
                   currentOpenRecords, notifyIDs, err, writes, writeFailed,
                   phase, cycles, calls>>
    /\ UNCHANGED <<poolVars, scraperVars, limiterVars>>

\* ScrapeOnce returns to Run, after its dispatch loop or before the store
\* was called (fetch error, no items); Run creates or resets its timer.
RunScrapeReturns ==
    /\ run.pc = "scraping"
    /\ phase = "idle"
    /\ run' = [run EXCEPT !.pc = "waiting", !.timer = "armed",
                          !.inflight = @ - 1]
    /\ UNCHANGED <<cfg, occupancy_opens, occupancy_histories, now, allItems,
                   currentOpenRecords, notifyIDs, err, writes, writeFailed,
                   phase, cycles, calls>>
    /\ UNCHANGED <<poolVars, scraperVars, limiterVars>>

\* The timer expires: timer.C holds a value.
TimerFires ==
    /\ run.timer = "armed"
    /\ run' = [run EXCEPT !.timer = "fired"]
    /\ UNCHANGED <<cfg, occupancy_opens, occupancy_histories, now, allItems,
                   currentOpenRecords, notifyIDs, err, writes, writeFailed,
                   phase, cycles, calls>>
    /\ UNCHANGED <<poolVars, scraperVars, limiterVars>>

\* A timer case that starts ScrapeOnce in a goroutine of its own and resets
\* the timer at once.
RunTimerCaseAsync ==
    /\ run.pc = "waiting"
    /\ run.timer = "fired"
    /\ run' = [run EXCEPT !.timer = "armed", !.inflight = @ + 1,
                          !.entered = cycles, !.overran = FALSE]
    /\ UNCHANGED <<cfg, occupancy_opens, occupancy_histories, now, allItems,
                   currentOpenRecords, notifyIDs, err, writes, writeFailed,
                   phase, cycles, calls>>
    /\ UNCHANGED <<poolVars, scraperVars, limiterVars>>

\* case <-timer.C: Run calls ScrapeOnce; the timer is reset only when it
\* has returned.
RunTimerCase ==
    /\ run.pc = "waiting"
    /\ run.timer = "fired"
    /\ run' = [run EXCEPT !.pc = "scraping", !.timer = "expired",
                          !.inflight = @ + 1, !.entered = cycles,
                          !.overran = FALSE]
    /\ UNCHANGED <<cfg, occupancy_opens, occupancy_histories, now, allItems,
                   currentOpenRecords, notifyIDs, err, writes, writeFailed,
                   phase, cycles, calls>>
    /\ UNCHANGED <<poolVars, scraperVars, limiterVars>>

\* case <-ctx.Done(): Run returns.
RunExit ==
    /\ run.pc = "waiting"
    /\ cancelled
    /\ run' = [run EXCEPT !.pc = "stopped"]
    /\ UNCHANGED <<cfg, occupancy_opens, occupancy_histories, now, allItems,
                   currentOpenRecords, notifyIDs, err, writes, writeFailed,
                   phase, cycles, calls>>
    /\ UNCHANGED <<poolVars, scraperVars, limiterVars>>

\* Run driving ScrapeOnce, the store and the pool.
NextRun ==
    \/ Start
    \/ RunFirstScrape
    \/ RunUpdateOccupancy
    \/ IntervalPasses
    \/ ScrapeCommit
    \/ DispatchNotify
    \/ DispatchReturn
    \/ ScrapeReturn
    \/ RunScrapeReturns
    \/ TimerFires
    \/ RunTimerCase
    \/ RunExit
    \/ \E w \in WorkerIDs : WorkerTake(w)
    \/ \E w \in WorkerIDs : FetchSubscriptions(w)
    \/ \E w \in WorkerIDs : FetchMachine(w)
    \/ \E w \in WorkerIDs : Send(w)
    \/ \E w \in WorkerIDs : HandleResponse(w)
    \/ \E w \in WorkerIDs : WorkerDone(w)
    \/ \E w \in WorkerIDs : WorkerExit(w)
    \/ Cancel

SpecRun == Init /\ [][NextRun]_vars


\* --------------------------------------- store: UpdateOccupancy by steps
\* currentOpenRecords, err := s.fetchAllOpenOccupancies(ctx): the open
\* records are read on s.db, before the transaction exists.
LoadOpenRecords ==
    /\ phase = "idle"
    /\ cycles < MaxCycles
    /\ phase' = "loaded"
    /\ currentOpenRecords' = occupancy_opens
    /\ UNCHANGED <<cfg, occupancy_opens, occupancy_histories, now, allItems,
                   notifyIDs, err, writes, writeFailed, cycles, calls, run>>
    /\ UNCHANGED <<poolVars, scraperVars, limiterVars>>

\* s.db.WithContext(ctx).Transaction(func(tx *gorm.DB) error {: the
\* transaction begins.
BeginTransaction ==
    /\ phase = "loaded"
    /\ phase' = "transaction"
    /\ UNCHANGED <<cfg, occupancy_opens, occupancy_histories, now, allItems,
                   currentOpenRecords, notifyIDs, err, writes, writeFailed,
                   cycles, calls, run>>
    /\ UNCHANGED <<poolVars, scraperVars, limiterVars>>

\* UpdateOccupancy as a function of the map it loaded and of the tables the
\* transaction finds.
UpdateOccupancyOn(loaded, opens, histories, t, items, order) ==
    Transaction(opens, histories,
        transactionBody([BeginTx(opens, histories, 0) EXCEPT
                            !.current = fetchAllOpenOccupancies(loaded)],
                        items, order, t))

\* The function passed to Transaction runs on the map read before and the
\* transaction commits or rolls back; UpdateOccupancy returns.
EndTransaction ==
    /\ phase = "transaction"
    /\ \E t \in {now, now + 1}, items \in Snapshots :
         \E order \in RangeOrders(DOMAIN processItems(
                        [BeginTx(occupancy_opens, occupancy_histories, 0) EXCEPT
                            !.current = fetchAllOpenOccupancies(currentOpenRecords)],
                        items, 1, t).current) :
            /\ Returned(UpdateOccupancyOn(currentOpenRecords, occupancy_opens,
                            occupancy_histories, t, items, order), t, items)
    /\ UNCHANGED <<cfg, poolVars, scraperVars, limiterVars>>

NextSteps == LoadOpenRecords \/ BeginTransaction \/ EndTransaction \/ CycleDone

SpecSteps == Init /\ [][NextSteps]_vars


\* ------------------------------------------- classifier configurations
\* Every way to configure the three code sets over the codes the API sends;
\* the configuration file is not checked for overlaps.
Configs == [StateIdleValues : SUBSET StateCodes,
            StateOccupiedValues : SUBSET StateCodes,
            StateFaultyValues : SUBSET StateCodes]

InitClassify == cfg \in Configs /\ EmptyStore /\ InitPool

\* The first reconciliation under the configuration: every item of the
\* snapshot is classified.
ClassifySnapshot == cycles < MaxClassified /\ UpdateOccupancy

NextClassify == ClassifySnapshot \/ CycleDone

SpecClassify == InitClassify /\ [][NextClassify]_vars


\* ------------------------------------------------ api: PutSubscription
\* The number of machine IDs a request lists.
MaxListed == 2

\* The ID of a machine that is not in table machines.
NoSuchMachine == 999

\* The rows of table machines, and the request bodies explored: an
\* endpoint, its two keys and a list of machine IDs, which may name a
\* machine twice or one that does not exist.
ExistingMachines == Machines
putSubscriptionRequests ==
    [Endpoint : Endpoints, P256DH : {"p1", "p2"}, Auth : {"a1", "a2"},
     SubscribedMachines :
         UNION {[1..n -> Machines \cup {NoSuchMachine}] : n \in 0..MaxListed}]

\* The three subscription tables as one value.
SubscriptionTables(rows, mapping, keys) ==
    [push_subscriptions |-> rows, subscription_machine_mapping |-> mapping,
     subscription_keys |-> keys]

\* Create with OnConflict(endpoint) DoUpdates(p256dh, auth).
UpsertSubscription(db, req) ==
    [db EXCEPT
        !.push_subscriptions = @ \cup {req.Endpoint},
        !.subscription_keys =
            [e \in (DOMAIN @) \cup {req.Endpoint} |->
                IF e = req.Endpoint
                THEN [P256DH |-> req.P256DH, Auth |-> req.Auth]
                ELSE @[e]]]

\* tx.Find(&machines, req.SubscribedMachines), skipped for an empty list.
FindMachines(ids) ==
    IF Len(ids) > 0
    THEN {m \in ExistingMachines : \E i \in 1..Len(ids) : ids[i] = m}
    ELSE {}

\* An association update that adds the join rows and removes none.
AppendMachines(db, endpoint, machines) ==
    [db EXCEPT !.subscription_machine_mapping =
                   @ \cup {<<endpoint, m>> : m \in machines}]

\* Association("Machines").Replace(&machines): the join rows of the
\* subscription become those of `machines`.
ReplaceMachines(db, endpoint, machines) ==
    [db EXCEPT !.subscription_machine_mapping =
                   {r \in @ : r[1] # endpoint}
                       \cup {<<endpoint, m>> : m \in machines}]

\* The transaction of PutSubscription, committed.
PutSubscriptionResult(db, req) ==
    ReplaceMachines(UpsertSubscription(db, req), req.Endpoint,
                    FindMachines(req.SubscribedMachines))

\* PUT /subscriptions with a well-formed body, answered 201.
PutSubscription ==
    /\ \E req \in putSubscriptionRequests :
         LET after == PutSubscriptionResult(
                          SubscriptionTables(push_subscriptions,
                              subscription_machine_mapping, subscription_keys),
                          req)
         IN  /\ push_subscriptions' = after.push_subscriptions
             /\ subscription_machine_mapping' = after.subscription_machine_mapping
             /\ subscription_keys' = after.subscription_keys
    /\ UNCHANGED <<jobs, workers, cancelled, dispatcher, dispatched, processed,
                   fetch, machine_rows,
                   limiterVars>>
    /\ UNCHANGED storeVars

\* DELETE /subscriptions: the row is deleted by its endpoint.
DeleteSubscription ==
    /\ \E endpoint \in Endpoints :
         /\ push_subscriptions' = push_subscriptions \ {endpoint}
         /\ subscription_keys' =
                [e \in (DOMAIN subscription_keys) \ {endpoint} |->
                    subscription_keys[e]]
    /\ UNCHANGED <<jobs, workers, cancelled, dispatcher, dispatched, processed,
                   subscription_machine_mapping, fetch, machine_rows,
                   limiterVars>>
    /\ UNCHANGED storeVars

NextApi == PutSubscription \/ DeleteSubscription

SpecApi == Init /\ [][NextApi]_vars


\* ------------------------------ store under two codes of one class
\* A configuration with two occupied codes and no faulty code.
TwoOccupiedConfig == [StateIdleValues |-> {1}, StateOccupiedValues |-> {2, 3},
                      StateFaultyValues |-> {}]

InitTwoOccupied == cfg = TwoOccupiedConfig /\ EmptyStore /\ InitPool

SpecTwoOccupied == InitTwoOccupied /\ [][NextStore]_vars

\* ------------------------------------------- scraper: the finish timestamps
\* Number of reconciliations explored on snapshots as the API sends them.
MaxTimed == 2
\* The latest finish time the upstream API is taken to send, in seconds.
MaxFinish == 3

\* time.Format of a finish time: its seconds field, two digits (the date,
\* the hour and the minute are the same in every timestamp).
FormatTimestamp(t) == <<Digits[(t \div 10) + 1], Digits[(t % 10) + 1]>>

\* The values of the field finishTime: absent (nil, the empty set), the
\* empty string, a string that is no timestamp, and well-formed timestamps.
FinishTimeStrings ==
    {{}, {<<>>}, {<<"s", "o", "o", "n">>}}
        \cup {{FormatTimestamp(t)} : t \in 1..MaxFinish}

\* The items as decoded from the response: FinishTimeParsed is not set.
DecodedItems ==
    {it \in [ID : Machines, State : StateCodes, FinishTime : FinishTimeStrings,
             FinishTimeParsed : {{}}] :
        it.State \in DefaultConfig.StateIdleValues => it.FinishTime = {}}

DecodedSnapshots == UNION {[1..n -> DecodedItems] : n \in 0..MaxItems}

IsDigit(c) == \E d \in 1..10 : Digits[d] = c
DigitValue(c) == (CHOOSE d \in 1..10 : Digits[d] = c) - 1

\* time.ParseInLocation(layout, value, loc): the seconds field is two digits.
ParseInLocation(value) ==
    IF Len(value) = 2 /\ IsDigit(value[1]) /\ IsDigit(value[2])
    THEN [time |-> {10 * DigitValue(value[1]) + DigitValue(value[2])},
          err |-> FALSE]
    ELSE [time |-> {}, err |-> TRUE]

\* Service.parseTimestamp: nil and "" are no timestamp and no error.
parseTimestamp(tsStr) ==
    IF tsStr = {} \/ tsStr = {<<>>}
    THEN [time |-> {}, err |-> FALSE]
    ELSE ParseInLocation(CHOOSE v \in tsStr : TRUE)

\* The loop of ScrapeOnce over allItems: an item whose timestamp does not
\* parse keeps its nil FinishTimeParsed.
parseTimestamps(items) ==
    [i \in DOMAIN items |->
        LET parsed == parseTimestamp(items[i].FinishTime)
        IN  IF parsed.err THEN items[i]
            ELSE [items[i] EXCEPT !.FinishTimeParsed = parsed.time]]

\* ScrapeOnce from the parse of the timestamps to the return of
\* UpdateOccupancy, on a snapshot as the API sent it.
ScrapeTimed ==
    /\ phase = "idle"
    /\ cycles < MaxTimed
    /\ \E t \in {now, now + 1}, decoded \in DecodedSnapshots :
         \E order \in RangeOrders(remainingIDs(occupancy_opens,
                          occupancy_histories, t, parseTimestamps(decoded), 0)) :
            Returned(UpdateOccupancyResult(occupancy_opens, occupancy_histories,
                                           t, parseTimestamps(decoded), order, 0),
                     t, parseTimestamps(decoded))
    /\ UNCHANGED <<cfg, poolVars, scraperVars, limiterVars>>

NextTimed == ScrapeTimed \/ CycleDone

SpecTimed == Init /\ [][NextTimed]_vars

\* ------------------------------------------- scraper: the fetch of a cycle
\* Number of reconciliations explored on snapshots fetched page by page.
MaxFetched == 2
\* cfg.Scraper.Request.PageSize
PageSize == 1

\* The response to the request for page `page` when the upstream lists the
\* items `upstream`: the items of the page and the total number of items.
fetchPage(upstream, page) ==
    [Total |-> Len(upstream),
     Items |-> SubSeq(upstream, (page - 1) * PageSize + 1,
                      IF page * PageSize < Len(upstream)
                      THEN page * PageSize ELSE Len(upstream))]

\* The fetch loop of ScrapeOnce from page `page` on, the request for page
\* failPage failing: the items appended to allItems and whether fetchErr
\* is set.
RECURSIVE fetchLoop(_, _, _, _, _)
fetchLoop(upstream, failPage, page, total, items) ==
    IF ~((page - 1) * PageSize < total)
    THEN [items |-> items, err |-> FALSE]
    ELSE IF page = failPage
    THEN [items |-> items, err |-> TRUE]
    ELSE LET resp == fetchPage(upstream, page)
         IN  IF resp.Total = 0 \/ Len(resp.Items) = 0
             THEN [items |-> items, err |-> FALSE]
             ELSE fetchLoop(upstream, failPage, page + 1, resp.Total,
                            items \o resp.Items)

\* `total := 1`, `for page := 1; ...`
fetchAll(upstream, failPage) == fetchLoop(upstream, failPage, 1, 1, <<>>)

\* A test that never gives up.
abortsNever(fetched) == FALSE

\* `if fetchErr != nil && len(allItems) == 0 { return }`
aborts(fetched) == fetched.err /\ Len(fetched.items) = 0

\* The machines the upstream lists on pages the loop did not retrieve.
unfetchedOf(upstream, fetched) ==
    SnapshotIDs(upstream) \ SnapshotIDs(fetched.items)

\* UpsertDormsAndMachines returning nil: the table machines after the batch
\* upsert, which skips the items whose name does not parse or whose dorm
\* is not found.
upsertMachines(rows, items, unparsed) ==
    rows \cup (SnapshotIDs(items) \ unparsed)

\* What the fetch loop can leave behind: the items retrieved, whether
\* fetchErr is set, and the machines listed on pages not retrieved.
Fetched ==
    {[items |-> fetchAll(upstream, failPage).items,
      err |-> fetchAll(upstream, failPage).err,
      unfetched |-> unfetchedOf(upstream, fetchAll(upstream, failPage))] :
          upstream \in Snapshots, failPage \in 0..MaxItems}

\* A ScrapeOnce whose fetch fails with no item retrieved: it returns.
ScrapeOnceFetchAborts ==
    /\ phase = "idle"
    /\ cycles < MaxFetched
    /\ \E fetched \in Fetched :
         /\ aborts(fetched)
         /\ fetch' = [err |-> fetched.err, unfetched |-> fetched.unfetched,
                      step |-> "aborted"]
    /\ UNCHANGED <<storeVars, poolVars, machine_rows, limiterVars>>

\* A ScrapeOnce in which UpsertDormsAndMachines returns an error: the
\* batch upsert is rolled back and ScrapeOnce returns.
ScrapeOnceUpsertFails ==
    /\ phase = "idle"
    /\ cycles < MaxFetched
    /\ \E fetched \in Fetched :
         /\ ~aborts(fetched)
         /\ fetch' = [err |-> fetched.err, unfetched |-> fetched.unfetched,
                      step |-> "upsert failed"]
    /\ UNCHANGED <<storeVars, poolVars, machine_rows, limiterVars>>

\* A ScrapeOnce from its fetch to the return of UpdateOccupancy: the items
\* retrieved are upserted and reconciled.
ScrapeOnceReconciles ==
    /\ phase = "idle"
    /\ cycles < MaxFetched
    /\ \E fetched \in Fetched, t \in {now, now + 1} :
         /\ ~aborts(fetched)
         /\ fetch' = [err |-> fetched.err, unfetched |-> fetched.unfetched,
                      step |-> "reconciled"]
         /\ \E unparsed \in SUBSET SnapshotIDs(fetched.items) :
                machine_rows' = upsertMachines(machine_rows, fetched.items,
                                               unparsed)
         /\ \E order \in RangeOrders(remainingIDs(occupancy_opens,
                             occupancy_histories, t, fetched.items, 0)) :
                Returned(UpdateOccupancyResult(occupancy_opens,
                             occupancy_histories, t, fetched.items, order, 0),
                         t, fetched.items)
    /\ UNCHANGED <<cfg, poolVars, limiterVars>>

\* A database with no machine and no subscription yet.
InitFetch ==
    /\ InitStore
    /\ NewWorkerPool
    /\ push_subscriptions = {}
    /\ subscription_machine_mapping = {}
    /\ subscription_keys = [e \in {} |-> [P256DH |-> "p1", Auth |-> "a1"]]
    /\ machine_rows = {}

NextFetch ==
    \/ ScrapeOnceFetchAborts
    \/ ScrapeOnceUpsertFails
    \/ ScrapeOnceReconciles
    \/ CycleDone

SpecFetch == InitFetch /\ [][NextFetch]_vars

\* ------------------------------------------------ scraper: Run, shutdown
\* Number of reconciliations Run makes before the upstream stops answering.
MaxShutdown == 4

\* The snapshots the upstream serves while Run is followed to its return:
\* every machine occupied, or every machine idle.
ShutdownSnapshots ==
    {<<[ID |-> 101, State |-> s, FinishTimeParsed |-> {}],
       [ID |-> 102, State |-> s, FinishTimeParsed |-> {}]>> : s \in {1, 2}}

\* The ScrapeOnce that Run called has fetched a snapshot and reaches its
\* call of UpdateOccupancy; after MaxShutdown cycles every fetch fails and
\* ScrapeOnce returns before the store is called.
ShutdownScrapeBegin ==
    /\ run.pc = "scraping"
    /\ cycles = run.entered
    /\ cycles < MaxShutdown
    /\ ScrapeBegin

\* UpdateOccupancy commits and returns the notify list to ScrapeOnce.
ShutdownUpdateOccupancy ==
    /\ phase = "reconciling"
    /\ ~cancelled
    /\ \E items \in ShutdownSnapshots :
         \E order \in RangeOrders(remainingIDs(occupancy_opens,
                                      occupancy_histories, now + 1, items, 0)) :
            Returned(UpdateOccupancyResult(occupancy_opens, occupancy_histories,
                                           now + 1, items, order, 0),
                     now + 1, items)
    /\ UNCHANGED <<cfg, poolVars, scraperVars, limiterVars>>

\* The context is cancelled while UpdateOccupancy runs: its database call
\* fails and it returns the error.
ShutdownUpdateOccupancyFails ==
    /\ phase = "reconciling"
    /\ cancelled
    /\ \E items \in ShutdownSnapshots :
          Returned(fetchFailed(occupancy_opens, occupancy_histories),
                   now + 1, items)
    /\ UNCHANGED <<cfg, poolVars, scraperVars, limiterVars>>

\* Run from its call to its return, with the pool it started.
NextShutdown ==
    \/ Start
    \/ RunFirstScrape
    \/ ShutdownScrapeBegin
    \/ ShutdownUpdateOccupancy
    \/ ShutdownUpdateOccupancyFails
    \/ DispatchNotify
    \/ DispatchReturn
    \/ ScrapeReturn
    \/ RunScrapeReturns
    \/ TimerFires
    \/ RunTimerCase
    \/ RunExit
    \/ \E w \in WorkerIDs : WorkerTake(w)
    \/ \E w \in WorkerIDs : FetchSubscriptions(w)
    \/ \E w \in WorkerIDs : FetchMachine(w)
    \/ \E w \in WorkerIDs : Send(w)
    \/ \E w \in WorkerIDs : HandleResponse(w)
    \/ \E w \in WorkerIDs : WorkerDone(w)
    \/ \E w \in WorkerIDs : WorkerExit(w)
    \/ Cancel

SpecShutdown == Init /\ [][NextShutdown]_vars

\* The call of UpdateOccupancy that ScrapeOnce made returns, with the
\* notify list or with an error.
UpdateOccupancyReturns == phase = "reconciling" /\ phase' = "returned"

\* The goroutine of Run is scheduled whenever it can take a step, its
\* database calls return, and a select whose ctx.Done() case is ready again
\* and again takes it in the end (the runtime picks among the ready cases
\* at random).
RunFairness ==
    /\ WF_vars(Start)
    /\ WF_vars(RunFirstScrape)
    /\ WF_vars(ShutdownScrapeBegin)
    /\ WF_phase(UpdateOccupancyReturns)
    /\ WF_vars(DispatchNotify)
    /\ WF_vars(DispatchReturn)
    /\ WF_vars(ScrapeReturn)
    /\ WF_vars(RunScrapeReturns)
    /\ WF_vars(RunTimerCase)
    /\ SF_vars(RunExit)

\* Run and the workers under a scheduler that lets every goroutine that
\* can take a step take one.
SpecShutdownFair ==
    /\ SpecShutdown
    /\ RunFairness
    /\ \A w \in WorkerIDs : WorkerFairness(w) /\ WF_vars(WorkerDone(w))

\* ------------------------------------------------- mw: the rate limiter
\* Requests are followed over an interval shorter than 1/r, in which no
\* limiter gains a token.

\* A request from client ip reaches the middleware, which calls
\* limiter.GetLimiter(c.ClientIP()).
Request(q, ip) ==
    /\ requests[q].pc = "new"
    /\ requests' = [requests EXCEPT ![q].pc = "GetLimiter", ![q].ip = ip]
    /\ UNCHANGED <<ips, limiters>>
    /\ UNCHANGED <<storeVars, poolVars, scraperVars>>

\* GetLimiter: i.mu.RLock(); limiter, exists := i.ips[ip]; i.mu.RUnlock().
GetLimiter(q) ==
    /\ requests[q].pc = "GetLimiter"
    /\ requests' = [requests EXCEPT ![q].pc = "read",
                                    ![q].exists = ips[requests[q].ip] # 0,
                                    ![q].limiter = ips[requests[q].ip]]
    /\ UNCHANGED <<ips, limiters>>
    /\ UNCHANGED <<storeVars, poolVars, scraperVars>>

\* if !exists { return i.AddIP(ip) }: under the write lock AddIP creates a
\* limiter with b tokens, stores it in the map and returns it.
AddIP(q) ==
    /\ requests[q].pc = "read"
    /\ ~requests[q].exists
    /\ LET limiter == Len(limiters) + 1
       IN  /\ limiters' = Append(limiters, Burst)
           /\ ips' = [ips EXCEPT ![requests[q].ip] = limiter]
           /\ requests' = [requests EXCEPT ![q].pc = "Allow",
                                           ![q].limiter = limiter]
    /\ UNCHANGED <<storeVars, poolVars, scraperVars>>

\* return limiter: GetLimiter returns the limiter it read.
GetLimiterReturn(q) ==
    /\ requests[q].pc = "read"
    /\ requests[q].exists
    /\ requests' = [requests EXCEPT ![q].pc = "Allow"]
    /\ UNCHANGED <<ips, limiters>>
    /\ UNCHANGED <<storeVars, poolVars, scraperVars>>

\* if !limiter.GetLimiter(...).Allow(): Allow takes a token of the limiter
\* returned when it has one, and the request goes on to c.Next(); without a
\* token the request is aborted with http.StatusTooManyRequests.
Allow(q) ==
    /\ requests[q].pc = "Allow"
    /\ LET limiter == requests[q].limiter
       IN  IF limiters[limiter] > 0
           THEN /\ limiters' = [limiters EXCEPT ![limiter] = @ - 1]
                /\ requests' = [requests EXCEPT ![q].pc = "Next"]
           ELSE /\ limiters' = limiters
                /\ requests' = [requests EXCEPT ![q].pc = "Aborted"]
    /\ UNCHANGED ips
    /\ UNCHANGED <<storeVars, poolVars, scraperVars>>

\* Concurrent requests through the middleware.
NextLimiter ==
    \/ \E q \in RequestIDs, ip \in ClientIPs : Request(q, ip)
    \/ \E q \in RequestIDs : GetLimiter(q)
    \/ \E q \in RequestIDs : AddIP(q)
    \/ \E q \in RequestIDs : GetLimiterReturn(q)
    \/ \E q \in RequestIDs : Allow(q)

SpecLimiter == Init /\ [][NextLimiter]_vars


\* ================================================================ claims
\* A step that is one call of UpdateOccupancy, and one that succeeded.
Reconciled == phase = "idle" /\ phase' = "returned"
Committed == Reconciled /\ ~err'

\* The history rows a step adds, and those it adds for machine id.
Archived == occupancy_histories' \ occupancy_histories
ArchivedFor(id) == {h \in Archived : h.MachineID = id}

\* The state after a call: what the machine's open session was when the
\* cycle began, and the snapshot entry it was compared with (the first one
\* the snapshot lists for the machine).
HadOpenSession(id) == \E r \in currentOpenRecords : r.MachineID = id
OpenSessionOf(id) == CHOOSE r \in currentOpenRecords : r.MachineID = id
Listed(id) == id \in SnapshotIDs(allItems)
EntryOf(id) == Head(ItemsOf(allItems, id))
InNotifyList(id) == \E i \in 1..Len(notifyIDs) : notifyIDs[i] = id
UniqueIDs(items) ==
    \A i, j \in 1..Len(items) : items[i].ID = items[j].ID => i = j

C2_AbortLeavesNoPartialWrite ==
    [][(Reconciled /\ writeFailed') =>
          /\ err'
          /\ occupancy_opens' = occupancy_opens
          /\ occupancy_histories' = occupancy_histories]_vars

\* A call failed at its third write or later, after an archive row and a
\* delete or update had been written in the transaction.
C2_Witness ==
    phase = "returned" /\ writeFailed /\ err /\ writes >= 3
    /\ currentOpenRecords # {}

\* C3: a successful UpdateOccupancy adds exactly one history record for every
\* open session whose machine is not in the snapshot and removes its row;
\* afterwards every open session is of a machine the snapshot lists.
C3_AbsentMachinesClosed ==
    [][Committed =>
          /\ \A r \in occupancy_opens :
                r.MachineID \notin SnapshotIDs(allItems') =>
                    /\ Cardinality(ArchivedFor(r.MachineID)) = 1
                    /\ \A o \in occupancy_opens' : o.MachineID # r.MachineID
          /\ \A o \in occupancy_opens' :
                o.MachineID \in SnapshotIDs(allItems')]_vars

\* A machine with an open session is absent from a snapshot that lists the
\* other machine.
C3_Witness ==
    /\ phase = "returned" /\ ~err /\ allItems # <<>>
    /\ \E r \in currentOpenRecords : ~Listed(r.MachineID)

\* C4: every history record written for an open session observed at T0 with
\* remaining-seconds R, archived at `now`, has period-start T0, and
\* period-end T0 + R when R > 0 and `now` when R = 0.
C4_PredictedWindow ==
    [][Reconciled =>
          \A h \in Archived :
              \E r \in occupancy_opens :
                  /\ r.MachineID = h.MachineID
                  /\ h.PeriodStart = r.ObservedAt
                  /\ h.PeriodEnd = IF r.TimeRemaining > 0
                                   THEN r.ObservedAt + r.TimeRemaining
                                   ELSE now']_vars

\* In one cycle a session with a remainder is archived with a period-end
\* that is not `now`, and a session without remainder with period-end `now`.
C4_Witness ==
    /\ phase = "returned" /\ ~err
    /\ \E r, q \in currentOpenRecords :
        /\ r.TimeRemaining > 0 /\ r.ObservedAt + r.TimeRemaining # now
        /\ historyRecord(r, now) \in occupancy_histories
        /\ q.TimeRemaining = 0 /\ q.ObservedAt < now
        /\ historyRecord(q, now) \in occupancy_histories

C6_OneNonIdleSessionPerMachine ==
    /\ \A a, b \in occupancy_opens : a.MachineID = b.MachineID => a = b
    /\ \A o \in occupancy_opens :
          getStateType(o.Status) \in
              {StateTypeOccupied, StateTypeFaulty, StateTypeUnknown}

\* A snapshot listing one machine twice, both times non-idle, was refused
\* while both machines had an open session.
C6_Witness ==
    /\ phase = "returned" /\ err /\ ~UniqueIDs(allItems)
    /\ \A id \in Machines : \E o \in occupancy_opens : o.MachineID = id

\* C7: history is append-only: no step removes or changes a history record.
C7_HistoryAppendOnly ==
    [][occupancy_histories \subseteq occupancy_histories']_vars

\* A cycle added a history record for a machine that already had one.
C7_Witness ==
    /\ phase = "returned" /\ ~err
    /\ \E h, g \in occupancy_histories :
        /\ h.MachineID = g.MachineID
        /\ h.ObservedAt = now /\ g.ObservedAt < now
        /\ HadOpenSession(h.MachineID)

\* C8: reconciling the same snapshot again right after a successful
\* reconciliation of it, with the same `now`, writes nothing and returns an
\* empty notify list.
C8_SecondReconcileWritesNothing ==
    (phase = "returned" /\ ~err) =>
        \A order \in RangeOrders(remainingIDs(occupancy_opens,
                                     occupancy_histories, now, allItems, 0)) :
            LET again == UpdateOccupancyResult(occupancy_opens,
                             occupancy_histories, now, allItems, order, 0)
            IN  /\ again.writes = 0
                /\ again.notify = <<>>
                /\ again.opens = occupancy_opens
                /\ again.histories = occupancy_histories

\* Jobs in the channel, and jobs a worker holds.
Queued == Len(jobs)
InProcess == Cardinality({w \in WorkerIDs : workers[w].pc = "processing"})
DispatchBlocked == dispatcher.pc = "sending" /\ Queued = PoolSize

\* C9: the job queue of a pool of size N never holds more than N jobs and
\* can hold N; while N jobs are queued a caller inside Dispatch stays there
\* with its job, and nothing is queued or dropped, until a worker takes a
\* job; while fewer than N jobs are queued the caller can return at once,
\* whatever the workers do, and its return puts the job at the queue's end.
C9_DispatchBlocksWhenFull ==
    /\ [][/\ Queued' <= PoolSize
          /\ DispatchBlocked =>
                \/ dispatcher' = dispatcher /\ jobs' = jobs
                \/ \E w \in WorkerIDs : WorkerTake(w)
          /\ (dispatcher.pc = "sending" /\ dispatcher'.pc = "idle") =>
                /\ Queued < PoolSize
                /\ jobs' = Append(jobs, dispatcher.job)]_vars
    /\ [](dispatcher.pc = "sending" /\ Queued < PoolSize
            => ENABLED DispatchReturn)

\* A caller is inside Dispatch while N jobs are queued and a worker that
\* can take one is at its select.
C9_Witness ==
    /\ DispatchBlocked
    /\ \E w \in WorkerIDs : workers[w].pc = "select"
    /\ dispatched >= PoolSize

\* C10: at most N jobs are queued and at most N are being processed, so the
\* jobs accepted by Dispatch and not finished never number more than 2N.
C10_AcceptedUnfinishedBounded ==
    /\ Queued <= PoolSize
    /\ InProcess <= PoolSize
    /\ dispatched - Len(processed) = Queued + InProcess
    /\ dispatched - Len(processed) <= 2 * PoolSize

\* 2N jobs are accepted and unfinished, and the next Dispatch is waiting.
C10_Witness ==
    /\ Queued = PoolSize /\ InProcess = PoolSize
    /\ dispatcher.pc = "sending"
    /\ dispatched - Len(processed) = 2 * PoolSize

\* The pool is started; the jobs for machine id that Dispatch has accepted
\* and that are in the queue, held by a worker, or processed.
Started == \A w \in WorkerIDs : workers[w].pc # "new"
CountIn(seq, id) == Cardinality({k \in 1..Len(seq) : seq[k] = id})
HeldFor(id) == Cardinality({w \in WorkerIDs : workers[w].job = id})
ProcessedFor(id) == CountIn(processed, id)
AcceptedFor(id) == CountIn(jobs, id) + HeldFor(id) + ProcessedFor(id)
DispatchReturns(id) ==
    dispatcher.pc = "sending" /\ dispatcher.job = id /\ dispatcher'.pc = "idle"

\* C11: the jobs for a machine that are queued, held by a worker or
\* processed grow by one exactly when Dispatch returns for that machine and
\* never otherwise (no job is lost, none is processed twice), a worker gives
\* up a job only by finishing it, and once the pool is started the k-th
\* accepted job of every machine is eventually processed unless
\* cancellation occurs.
C11_EveryJobProcessedOnce ==
    /\ [][\A id \in Machines :
            /\ AcceptedFor(id)' = AcceptedFor(id)
                                  + (IF DispatchReturns(id) THEN 1 ELSE 0)
            /\ \A w \in WorkerIDs :
                  (workers[w].job = id /\ workers'[w].job # id) =>
                      processed' = Append(processed, id)]_vars
    /\ \A id \in Machines : \A k \in 1..MaxDispatch :
          (Started /\ AcceptedFor(id) >= k)
              ~> (cancelled \/ ProcessedFor(id) >= k)

\* All accepted jobs are processed, by both workers' doing, without
\* cancellation.
C11_Witness ==
    /\ ~cancelled /\ dispatched = MaxDispatch /\ Len(processed) = MaxDispatch
    /\ \A id \in Machines : ProcessedFor(id) >= 2

\* C12 as stated: once cancellation has fired no worker takes a job from the
\* queue, and every worker of a started pool eventually terminates.
C12_NoTakeAfterCancel ==
    /\ [][cancelled =>
            \A w \in WorkerIDs :
                ~(workers[w].pc = "select" /\ workers'[w].pc = "processing")]_vars
    /\ (cancelled /\ Started) ~> (\A w \in WorkerIDs : workers[w].pc = "exited")

\* What a worker in sendNotification is about to handle, the outcome the
\* step that handles it records, and the endpoints of a sequence.
Pending(w) == workers[w].sends[workers[w].i]
Handles(w) == workers[w].step = "sent" /\ workers'[w] # workers[w]
Outcome(w) == workers'[w].sends[workers[w].i].deleted
Gone(send) == ~send.err /\ send.StatusCode = StatusGone
RangeOf(seq) == {seq[k] : k \in 1..Len(seq)}

\* C13 as stated: when cancellation occurs while a worker holds a job, the
\* job's calls go on as without cancellation: a subscriber lookup still to
\* be made can return the subscribers, and a subscription that answered 410
\* can still be deleted.
C13_HeldJobCompletes ==
    [][(~cancelled /\ cancelled') =>
          \A w \in WorkerIDs :
              /\ (workers[w].step = "lookup" =>
                     ENABLED (FetchSubscriptions(w) /\ ~workers'[w].lookupErr))'
              /\ ((workers[w].step = "sent" /\ Gone(Pending(w))) =>
                     ENABLED (HandleResponse(w) /\ Outcome(w) = "ok"))']_vars

\* C14: a worker issues the delete of a subscription exactly when Send to
\* its endpoint returned no error and status 410; a row leaves
\* push_subscriptions only by such a delete, which removes it unless the
\* delete fails, so any other status and any Send error leave it in place.
C14_DeleteIffGone ==
    /\ [][\A w \in WorkerIDs :
            Handles(w) =>
                /\ (Outcome(w) # "none") <=> Gone(Pending(w))
                /\ Outcome(w) = "ok" =>
                       push_subscriptions' =
                           push_subscriptions \ {Pending(w).Endpoint}
                /\ Outcome(w) # "ok" =>
                       push_subscriptions' = push_subscriptions]_vars
    /\ [][push_subscriptions' # push_subscriptions =>
            \E w \in WorkerIDs :
                Handles(w) /\ Gone(Pending(w)) /\ Outcome(w) = "ok"]_vars
    /\ [](\A w \in WorkerIDs :
            (workers[w].step = "sent" /\ Gone(Pending(w)) /\ ~cancelled) =>
                ENABLED (HandleResponse(w) /\ Outcome(w) = "ok"))

\* One job got 410 from one subscriber, whose row is gone, and an error or
\* another status from the other, whose row is still there.
C14_Witness ==
    \E w \in WorkerIDs :
        /\ workers[w].step = "return" /\ Len(workers[w].sends) = 2
        /\ \E k, l \in 1..2 :
            /\ Gone(workers[w].sends[k])
            /\ workers[w].sends[k].deleted = "ok"
            /\ workers[w].sends[k].Endpoint \notin push_subscriptions
            /\ ~Gone(workers[w].sends[l])
            /\ workers[w].sends[l].deleted = "none"
            /\ workers[w].sends[l].Endpoint \in push_subscriptions

\* C15: the Send calls of a job are made for the subscriptions its lookup
\* returned, one call each in that order and none for any other endpoint,
\* whatever the earlier sends returned; when the job returns every
\* subscription of the list has had its call, and an empty list has none.
C15_OneSendPerSubscriber ==
    \A w \in WorkerIDs :
        /\ Len(workers[w].sends) <= Len(workers[w].subscriptions)
        /\ \A k \in 1..Len(workers[w].sends) :
              workers[w].sends[k].Endpoint = workers[w].subscriptions[k]
        /\ \A k, l \in 1..Len(workers[w].subscriptions) :
              workers[w].subscriptions[k] = workers[w].subscriptions[l] => k = l
        /\ workers[w].step = "return" =>
              Len(workers[w].sends) = Len(workers[w].subscriptions)

\* A job ends after a Send error for its first subscriber and a Send for
\* its second one.
C15_Witness ==
    \E w \in WorkerIDs :
        /\ workers[w].step = "return" /\ Len(workers[w].sends) = 2
        /\ workers[w].sends[1].err
        /\ workers[w].sends[2].StatusCode = StatusCreated

\* The machine ID written in decimal.
DecimalOf == [id \in Machines |->
                 IF id = 101 THEN <<"1", "0", "1">> ELSE <<"1", "0", "2">>]

\* C16: once the display-name lookup of a job is over, the label is the
\* name when the lookup succeeded with a non-empty name and the machine ID
\* in decimal when it failed or gave an empty name; every Send of the job
\* carries that label, and a job whose lookup failed still sends to every
\* subscriber.
C16_LabelFallsBackToID ==
    \A w \in WorkerIDs :
        /\ workers[w].step \in {"send", "sent"} \/ workers[w].sends # <<>> =>
              workers[w].machineLabel =
                  IF ~workers[w].labelErr /\ DisplayNames[workers[w].job] # <<>>
                  THEN DisplayNames[workers[w].job]
                  ELSE DecimalOf[workers[w].job]
        /\ \A k \in 1..Len(workers[w].sends) :
              workers[w].sends[k].Label = workers[w].machineLabel
        /\ (workers[w].labelErr /\ workers[w].step = "return") =>
              /\ workers[w].sends # <<>>
              /\ Len(workers[w].sends) = Len(workers[w].subscriptions)

\* The lookup of the name of machine 101, which has one, failed before
\* cancellation, and both subscribers were sent the label "101".
C16_Witness ==
    /\ ~cancelled
    /\ \E w \in WorkerIDs :
        /\ workers[w].job = 101 /\ workers[w].labelErr
        /\ workers[w].step = "return" /\ Len(workers[w].sends) = 2
        /\ \A k \in 1..2 : workers[w].sends[k].Label = <<"1", "0", "1">>

\* C17: a job whose subscriber lookup failed makes no Send and no delete
\* and goes straight to its return; the failed lookup changes nothing but
\* that worker, and the worker then returns to its select as a worker that
\* holds no job, where it takes the next queued job.
C17_LookupFailureSkipsOneJob ==
    /\ [](\A w \in WorkerIDs :
            workers[w].lookupErr =>
                /\ workers[w].pc = "processing" /\ workers[w].step = "return"
                /\ workers[w].sends = <<>>
                /\ ENABLED WorkerDone(w))
    /\ [][\A w \in WorkerIDs :
            /\ (~workers[w].lookupErr /\ workers'[w].lookupErr) =>
                  /\ push_subscriptions' = push_subscriptions
                  /\ jobs' = jobs /\ processed' = processed
                  /\ \A v \in WorkerIDs \ {w} : workers'[v] = workers[v]
            /\ (workers[w].lookupErr /\ workers'[w] # workers[w]) =>
                  /\ workers'[w] = Worker("select")
                  /\ push_subscriptions' = push_subscriptions
                  /\ (jobs' # <<>> => (ENABLED WorkerTake(w))')]_vars

\* A lookup failed without cancellation while a job is queued and the other
\* worker is in the middle of its deliveries.
C17_Witness ==
    /\ ~cancelled /\ jobs # <<>>
    /\ \E w, v \in WorkerIDs :
        /\ workers[w].lookupErr
        /\ workers[v].step = "sent"

\* C18: when the delete after a 410 fails, the row stays, and the worker
\* goes on with the next subscriber of the list or, after the last, to its
\* return; every later lookup of a machine bound to that subscription
\* returns it again, and a 410 for it has the delete issued again.
C18_FailedDeleteIsRetriedLater ==
    /\ [][\A w \in WorkerIDs :
            (Handles(w) /\ Outcome(w) = "failed") =>
                /\ push_subscriptions' = push_subscriptions
                /\ workers'[w].pc = "processing"
                /\ workers'[w].i = workers[w].i + 1
                /\ workers'[w].step =
                       IF workers[w].i < Len(workers[w].subscriptions)
                       THEN "send" ELSE "return"]_vars
    /\ [][\A w \in WorkerIDs :
            (workers[w].step = "lookup" /\ workers'[w] # workers[w]
                /\ ~workers'[w].lookupErr) =>
                RangeOf(workers'[w].subscriptions)
                    = BoundSubscriptions(workers[w].job)]_vars
    /\ [][\A w \in WorkerIDs :
            (Handles(w) /\ Gone(Pending(w))) =>
                Outcome(w) \in {"ok", "failed"}]_vars

\* A delete of e1 failed in one job, and another job sent to e1, got 410
\* too and deleted it.
C18_Witness ==
    /\ ~cancelled
    /\ \E w, v \in WorkerIDs : \E k \in 1..Len(workers[w].sends) :
        \E l \in 1..Len(workers[v].sends) :
            /\ w # v
            /\ workers[w].sends[k].deleted = "failed"
            /\ workers[w].i > k /\ workers[w].step = "send"
            /\ workers[v].sends[l].Endpoint = workers[w].sends[k].Endpoint
            /\ workers[v].sends[l].deleted = "ok"

\* Workers w and v hold jobs of different machines and both got 410 from
\* the subscription at endpoint e.
BothGone(w, v, e) ==
    /\ w # v
    /\ workers[w].job # workers[v].job
    /\ \E k \in 1..Len(workers[w].sends) :
          workers[w].sends[k].Endpoint = e /\ Gone(workers[w].sends[k])
    /\ \E l \in 1..Len(workers[v].sends) :
          workers[v].sends[l].Endpoint = e /\ Gone(workers[v].sends[l])
DeletedBy(w, e) ==
    \E k \in 1..Len(workers[w].sends) :
        workers[w].sends[k].Endpoint = e /\ workers[w].sends[k].deleted = "ok"

\* C19: when two workers hold jobs of different machines and both got 410
\* from one subscription, each of the two deletes can complete whichever
\* comes first, a completed delete takes nothing but that subscription from
\* the table and leaves its worker going, and once both are done the
\* subscription is absent.
C19_ConcurrentDeletesIdempotent ==
    /\ [](\A w, v \in WorkerIDs : \A e \in Endpoints :
            (BothGone(w, v, e) /\ workers[w].step = "sent"
                /\ Pending(w).Endpoint = e /\ ~cancelled) =>
                ENABLED (HandleResponse(w) /\ Outcome(w) = "ok"))
    /\ [][\A w \in WorkerIDs :
            (Handles(w) /\ Outcome(w) = "ok") =>
                /\ push_subscriptions' =
                       push_subscriptions \ {Pending(w).Endpoint}
                /\ subscription_machine_mapping' = subscription_machine_mapping
                /\ workers'[w].pc = "processing"
                /\ workers'[w].step \in {"send", "return"}]_vars
    /\ [](\A w, v \in WorkerIDs : \A e \in Endpoints :
            (BothGone(w, v, e) /\ DeletedBy(w, e) /\ DeletedBy(v, e)) =>
                e \notin push_subscriptions)

\* Jobs of machines 101 and 102 both got 410 from e1 and both deleted it
\* while e2 is still there.
C19_Witness ==
    \E w, v \in WorkerIDs :
        /\ BothGone(w, v, "e1")
        /\ DeletedBy(w, "e1") /\ DeletedBy(v, "e1")
        /\ push_subscriptions = {"e2"}
        /\ ~cancelled

\* A step in which ScrapeOnce enters Dispatch, one in which a worker calls
\* Send, and one in which ScrapeOnce returns.
DispatchCalled == dispatcher.pc = "idle" /\ dispatcher'.pc = "sending"
SendMade ==
    \E w \in WorkerIDs : Len(workers'[w].sends) > Len(workers[w].sends)
ScrapeReturned == phase = "returned" /\ phase' = "idle"
UpdateOccupancyRunning == phase = "reconciling"

\* The Dispatch calls of a cycle follow the returned list: each call is made
\* after UpdateOccupancy has returned and passes the next ID of the list,
\* and ScrapeOnce returns only when the whole list has been passed and the
\* last Dispatch has returned.
DispatchFollowsList ==
    /\ DispatchCalled =>
          /\ phase = "returned" /\ phase' = "returned"
          /\ Len(calls) < Len(notifyIDs)
          /\ dispatcher'.job = notifyIDs[Len(calls) + 1]
          /\ calls' = Append(calls, dispatcher'.job)
    /\ ~DispatchCalled /\ ~ScrapeReturned /\ phase = "returned" => calls' = calls
    /\ ScrapeReturned => calls = notifyIDs /\ dispatcher.pc = "idle"

ScrapeOnceEntered == run'.inflight > run.inflight

\* C21: Run never has two reconciliations in flight: at most one ScrapeOnce
\* has been entered and not returned, UpdateOccupancy runs only inside it,
\* and ScrapeOnce is entered only when the previous one has returned, also
\* when that one lasted longer than the interval.
C21_OneScrapeInFlight ==
    /\ [](/\ run.inflight <= 1
          /\ phase # "idle" => run.pc = "scraping" /\ run.inflight = 1
          /\ dispatcher.pc = "sending" => run.inflight = 1)
    /\ [][ScrapeOnceEntered =>
             /\ run.inflight = 0
             /\ phase = "idle"
             /\ dispatcher.pc = "idle"]_vars

\* The second ScrapeOnce is inside UpdateOccupancy and has lasted longer
\* than the interval.
C21_Witness ==
    /\ run.overran /\ run.inflight = 1
    /\ cycles = 1 /\ phase = "reconciling"

\* The step that loads the persisted open sessions, and the states in which
\* the transaction of UpdateOccupancy is open.
OpenSessionsLoaded == phase = "idle" /\ phase' = "loaded"
TransactionOpen == phase = "transaction"

\* The diff is applied to the open sessions it was computed from: while
\* UpdateOccupancy runs, the map it loaded is the content of the table.
LoadedIsCurrent ==
    phase \in {"loaded", "transaction"} => currentOpenRecords = occupancy_opens

\* C22: within one UpdateOccupancy call the load of the persisted open
\* sessions happens inside the transaction that makes the writes derived
\* from it, so the diff is applied to the state it was computed from.
C22_LoadInsideTransaction ==
    /\ [][OpenSessionsLoaded => TransactionOpen \/ TransactionOpen']_vars
    /\ []LoadedIsCurrent

\* The configured code sets are pairwise disjoint.
DisjointSets ==
    /\ cfg.StateIdleValues \cap cfg.StateOccupiedValues = {}
    /\ cfg.StateIdleValues \cap cfg.StateFaultyValues = {}
    /\ cfg.StateOccupiedValues \cap cfg.StateFaultyValues = {}

\* C23: the classifier is total and changes nothing; for disjoint code sets
\* it returns Idle, Occupied or Faulty exactly when the code is in the
\* respective set, and Unknown exactly when the code is in none of them.
C23_ClassifierBySets ==
    /\ [](\A code \in StateCodes :
            /\ getStateType(code) \in {StateTypeIdle, StateTypeOccupied,
                                       StateTypeFaulty, StateTypeUnknown}
            /\ DisjointSets =>
                /\ getStateType(code) = StateTypeIdle
                       <=> code \in cfg.StateIdleValues
                /\ getStateType(code) = StateTypeOccupied
                       <=> code \in cfg.StateOccupiedValues
                /\ getStateType(code) = StateTypeFaulty
                       <=> code \in cfg.StateFaultyValues
                /\ getStateType(code) = StateTypeUnknown
                       <=> code \notin (cfg.StateIdleValues
                                        \cup cfg.StateOccupiedValues
                                        \cup cfg.StateFaultyValues))
    /\ [][cfg' = cfg]_vars

\* Under disjoint sets that leave one code out, a reconciliation has
\* classified a snapshot with a faulty machine and one of unknown state.
C23_Witness ==
    /\ DisjointSets
    /\ cfg.StateIdleValues # {} /\ cfg.StateFaultyValues # {}
    /\ phase = "returned" /\ ~err
    /\ \E o, q \in occupancy_opens :
          /\ o.Message = "unknown" /\ getStateType(o.Status) = StateTypeUnknown
          /\ q.Message = "faulty" /\ q.Status \in cfg.StateFaultyValues

\* C24: no two history records share the key (machine ID, observed-at),
\* whatever the `now` values of the cycles (strictly increasing ones
\* included), and one cycle archives each machine at most once, also when
\* the snapshot lists the machine twice.
C24_HistoryKeyUnique ==
    /\ [](\A h, g \in occupancy_histories :
              (h.MachineID = g.MachineID /\ h.ObservedAt = g.ObservedAt)
                  => h = g)
    /\ [][Reconciled =>
             \A id \in Machines :
                 /\ Cardinality(ArchivedFor(id)) <= 1
                 /\ \A h \in ArchivedFor(id) : h.ObservedAt = now']_vars

\* Cycles with strictly increasing `now` have archived the same machine
\* twice, the second time from a snapshot that lists the machine twice.
C24_Witness ==
    /\ phase = "returned" /\ ~err /\ ~UniqueIDs(allItems)
    /\ \E h, g \in occupancy_histories :
        /\ h.MachineID = g.MachineID
        /\ g.ObservedAt < h.ObservedAt /\ h.ObservedAt = now
        /\ Len(ItemsOf(allItems, h.MachineID)) = 2

\* The subscription tables of the current state, and the machines a
\* subscription is bound to in tables db.
CurrentTables ==
    SubscriptionTables(push_subscriptions, subscription_machine_mapping,
                       subscription_keys)
SubscribedMachines(db, endpoint) ==
    {m \in Machines \cup {NoSuchMachine} :
        <<endpoint, m>> \in db.subscription_machine_mapping}
RequestedMachines(req) ==
    {req.SubscribedMachines[i] : i \in 1..Len(req.SubscribedMachines)}

\* C25: in every state and for every request, a PUT for endpoint E with list
\* L leaves E with the credentials sent and bound to exactly the existing
\* machines among L (machines bound before and not in L are unbound), leaves
\* the other subscriptions as they were, and the same PUT applied again
\* changes nothing.
C25_PutReplacesAndIsIdempotent ==
    \A req \in putSubscriptionRequests :
        LET after == PutSubscriptionResult(CurrentTables, req)
        IN  /\ req.Endpoint \in after.push_subscriptions
            /\ after.subscription_keys[req.Endpoint] =
                   [P256DH |-> req.P256DH, Auth |-> req.Auth]
            /\ SubscribedMachines(after, req.Endpoint) =
                   RequestedMachines(req) \cap ExistingMachines
            /\ \A e \in Endpoints \ {req.Endpoint} :
                   /\ e \in after.push_subscriptions <=> e \in push_subscriptions
                   /\ SubscribedMachines(after, e) =
                          SubscribedMachines(CurrentTables, e)
                   /\ e \in push_subscriptions =>
                          after.subscription_keys[e] = subscription_keys[e]
            /\ PutSubscriptionResult(after, req) = after

\* A PUT has replaced the first subscription: e1, bound to machine 101 with
\* keys p1/a1 at the start, is bound to machine 102 only, with other keys,
\* while e2 is bound to both machines.
C25_Witness ==
    /\ "e1" \in push_subscriptions
    /\ subscription_keys["e1"] = [P256DH |-> "p2", Auth |-> "a2"]
    /\ SubscribedMachines(CurrentTables, "e1") = {102}
    /\ "e2" \in push_subscriptions
    /\ SubscribedMachines(CurrentTables, "e2") = {101, 102}

\* The open session of machine id before a step and the first snapshot entry
\* of the step's call for it; the step changed the machine's status code.
OldSession(id) == CHOOSE r \in occupancy_opens : r.MachineID = id
NewEntry(id) == Head(ItemsOf(allItems', id))
StatusChanged(id) ==
    /\ \E r \in occupancy_opens : r.MachineID = id
    /\ id \in SnapshotIDs(allItems')
    /\ NewEntry(id).State # OldSession(id).Status

\* What the statement says of a changed status: one new history record made
\* of the old session, the open session overwritten in place with the new
\* status and observed-at = now, and no entry in the notify list.
ArchivedAndOverwritten(id) ==
    /\ ArchivedFor(id) = {historyRecord(OldSession(id), now')}
    /\ historyRecord(OldSession(id), now') \notin occupancy_histories
    /\ {o \in occupancy_opens' : o.MachineID = id}
           = {prepareOccupancy(NewEntry(id), now')}
    /\ \A o \in occupancy_opens' :
           o.MachineID = id =>
               o.Status = NewEntry(id).State /\ o.ObservedAt = now'
    /\ \A k \in 1..Len(notifyIDs') : notifyIDs'[k] # id

\* C26 (as stated): any change of a machine's raw status code while it has
\* an open session archives the old session as one new history record,
\* overwrites the open session in place and adds nothing to the notify list.
C26_AnyChangeOverwrites ==
    [][Committed =>
          \A id \in Machines : StatusChanged(id) => ArchivedAndOverwritten(id)]_vars

\* C26 (amended): any change of a machine's raw status code to a code that
\* does not classify as idle, a code of the same non-idle class included,
\* archives the old session as one new history record, overwrites the open
\* session in place and adds nothing to the notify list.
C26_NonIdleChangeOverwrites ==
    [][Committed =>
          \A id \in Machines :
              (StatusChanged(id)
               /\ getStateType(NewEntry(id).State) # StateTypeIdle)
                  => ArchivedAndOverwritten(id)]_vars

\* A session with one occupied code was overwritten with the other occupied
\* code and archived.
C26_Witness ==
    /\ phase = "returned" /\ ~err
    /\ \E id \in Machines :
        /\ HadOpenSession(id) /\ Listed(id)
        /\ OpenSessionOf(id).Status # EntryOf(id).State
        /\ getStateType(OpenSessionOf(id).Status) = StateTypeOccupied
        /\ getStateType(EntryOf(id).State) = StateTypeOccupied
        /\ historyRecord(OpenSessionOf(id), now) \in occupancy_histories
        /\ prepareOccupancy(EntryOf(id), now) \in occupancy_opens
        /\ OpenSessionOf(id).ObservedAt < now

\* The machines a snapshot lists with a status that does not classify as
\* idle, and the snapshot without the entries of machine id.
NonIdleMachines(items) ==
    {items[i].ID : i \in {j \in 1..Len(items) :
                             getStateType(items[j].State) # StateTypeIdle}}
WithoutMachine(items, id) == SelectSeq(items, LAMBDA it : it.ID # id)
OpenMachines(rows) == {o.MachineID : o \in rows}

\* C27: after a successful UpdateOccupancy on a snapshot in which each
\* machine ID occurs at most once, the machines with an open session are
\* exactly the snapshot machines whose status classifies as non-idle, each
\* open row holds the status of its snapshot entry, a machine first seen
\* non-idle in this cycle has observed-at = now, and a machine seen idle with
\* no open session causes no write: the call attempts the writes it attempts
\* without that entry and no row of either table names the machine.
C27_OpenSetMirrorsSnapshot ==
    [][(Committed /\ UniqueIDs(allItems')) =>
          /\ OpenMachines(occupancy_opens') = NonIdleMachines(allItems')
          /\ \A o, q \in occupancy_opens' : o.MachineID = q.MachineID => o = q
          /\ \A o \in occupancy_opens' : o.Status = NewEntry(o.MachineID).State
          /\ \A id \in NonIdleMachines(allItems') \ OpenMachines(occupancy_opens) :
                 \A o \in occupancy_opens' : o.MachineID = id => o.ObservedAt = now'
          /\ \A id \in SnapshotIDs(allItems') \ (NonIdleMachines(allItems')
                                                 \cup OpenMachines(occupancy_opens)) :
                 /\ writes' = writesOf(occupancy_opens, occupancy_histories, now',
                                       WithoutMachine(allItems', id))
                 /\ id \notin OpenMachines(occupancy_opens')
                 /\ ArchivedFor(id) = {}]_vars

\* A snapshot of two machines without open session, one idle and one not:
\* the call made one write, the open row of the second, observed now.
C27_Witness ==
    /\ phase = "returned" /\ ~err
    /\ UniqueIDs(allItems) /\ Len(allItems) = 2
    /\ writes = 1
    /\ \E idle, busy \in Machines :
        /\ ~HadOpenSession(idle) /\ Listed(idle)
        /\ getStateType(EntryOf(idle).State) = StateTypeIdle
        /\ ~HadOpenSession(busy) /\ Listed(busy)
        /\ getStateType(EntryOf(busy).State) # StateTypeIdle
        /\ OpenMachines(occupancy_opens) = {busy}
        /\ \A o \in occupancy_opens : o.ObservedAt = now /\ now > 0

\* The snapshot entry compared with the open session of machine id carries
\* the status code the session has.
SameStatus(id) ==
    /\ \E r \in occupancy_opens : r.MachineID = id
    /\ id \in SnapshotIDs(allItems')
    /\ NewEntry(id).State = OldSession(id).Status

\* C28: when a snapshot entry has the same raw status code as the machine's
\* open session, the call leaves the open-session row as it was (status,
\* message, observed-at and remaining-seconds), whatever finish timestamp
\* the entry carries, and creates no history record for that machine.
C28_SameStatusLeavesRow ==
    [][Reconciled =>
          \A id \in Machines :
              SameStatus(id) =>
                  /\ {o \in occupancy_opens' : o.MachineID = id} = {OldSession(id)}
                  /\ ArchivedFor(id) = {}]_vars

\* A session with a predicted finish was seen again later with the same
\* status and another finish timestamp, and its row is the one it had.
C28_Witness ==
    /\ phase = "returned" /\ ~err
    /\ \E id \in Machines :
        /\ HadOpenSession(id) /\ Listed(id)
        /\ EntryOf(id).State = OpenSessionOf(id).Status
        /\ OpenSessionOf(id).TimeRemaining > 0
        /\ OpenSessionOf(id).ObservedAt < now
        /\ \E f \in EntryOf(id).FinishTimeParsed :
              /\ f > now
              /\ f # OpenSessionOf(id).ObservedAt + OpenSessionOf(id).TimeRemaining
        /\ prepareOccupancy(EntryOf(id), now) # OpenSessionOf(id)
        /\ {o \in occupancy_opens : o.MachineID = id} = {OpenSessionOf(id)}

\* The open-session rows a step creates or overwrites, and the seconds from
\* t to the time a finishTime value names: 0 when it names none or one not
\* later than t.
WrittenRows == occupancy_opens' \ occupancy_opens
NamedTimes(finishTime) == {f \in 0..99 : finishTime = {FormatTimestamp(f)}}
SecondsUntil(finishTime, t) ==
    IF \E f \in NamedTimes(finishTime) : f > t
    THEN (CHOOSE f \in NamedTimes(finishTime) : TRUE) - t
    ELSE 0

\* C29: the remaining-seconds stored in every created or overwritten open
\* session is never negative: it is the number of seconds from now to the
\* finish timestamp of the snapshot entry the row was written from when that
\* timestamp is present, parseable and later than now, and 0 otherwise.
C29_RemainingSeconds ==
    [][Reconciled =>
          \A o \in WrittenRows :
              /\ o.TimeRemaining >= 0
              /\ \E i \in 1..Len(allItems') :
                    /\ allItems'[i].ID = o.MachineID
                    /\ allItems'[i].State = o.Status
                    /\ o.TimeRemaining = SecondsUntil(allItems'[i].FinishTime, now')]_vars

\* One cycle overwrote a session from an entry with a finish two seconds
\* ahead and opened another from an entry whose timestamp does not parse.
C29_Witness ==
    /\ phase = "returned" /\ ~err /\ now > 0
    /\ \E a, b \in Machines :
        /\ a # b /\ Listed(a) /\ Listed(b)
        /\ HadOpenSession(a) /\ ~HadOpenSession(b)
        /\ EntryOf(a).FinishTime = {FormatTimestamp(now + 2)}
        /\ EntryOf(b).FinishTime = {<<"s", "o", "o", "n">>}
        /\ \E o \in occupancy_opens :
              o.MachineID = a /\ o.ObservedAt = now /\ o.TimeRemaining = 2
        /\ \E o \in occupancy_opens :
              o.MachineID = b /\ o.ObservedAt = now /\ o.TimeRemaining = 0

\* The open session of machine id is closed or overwritten by the step: the
\* machine is absent from the snapshot, its status code changed, or its row
\* is no longer in the table.
AbsentFromSnapshot(id) ==
    /\ \E r \in occupancy_opens : r.MachineID = id
    /\ id \notin SnapshotIDs(allItems')
ClosedOrOverwritten(id) ==
    \/ AbsentFromSnapshot(id)
    \/ StatusChanged(id)
    \/ /\ \E r \in occupancy_opens : r.MachineID = id
       /\ OldSession(id) \notin occupancy_opens'

\* C30: each closure or overwrite of an open session in a cycle produces
\* exactly one history record, with the machine ID, status code and message
\* of the old session and observed-at equal to the cycle's now; the cycle
\* adds as many history records as there are open sessions whose status
\* changed plus open sessions absent from the snapshot.
C30_OneHistoryPerClosure ==
    [][Committed =>
          /\ \A id \in Machines :
                ClosedOrOverwritten(id) =>
                    /\ Cardinality(ArchivedFor(id)) = 1
                    /\ \A h \in ArchivedFor(id) :
                          /\ h.Status = OldSession(id).Status
                          /\ h.Message = OldSession(id).Message
                          /\ h.ObservedAt = now'
          /\ Cardinality(Archived)
                = Cardinality({id \in Machines : StatusChanged(id)})
                  + Cardinality({id \in Machines : AbsentFromSnapshot(id)})]_vars

\* One cycle overwrote an occupied session with a faulty status and closed
\* the session of a machine absent from the snapshot: two history records
\* observed now, the first with the status and message of the old session.
C30_Witness ==
    /\ phase = "returned" /\ ~err /\ writes = 4
    /\ \E a, b \in Machines :
        /\ HadOpenSession(a) /\ Listed(a)
        /\ getStateType(OpenSessionOf(a).Status) = StateTypeOccupied
        /\ getStateType(EntryOf(a).State) = StateTypeFaulty
        /\ HadOpenSession(b) /\ ~Listed(b)
        /\ {h \in occupancy_histories : h.ObservedAt = now}
              = {historyRecord(OpenSessionOf(a), now),
                 historyRecord(OpenSessionOf(b), now)}
        /\ historyRecord(OpenSessionOf(a), now).Message = "in use"
        /\ \E o \in occupancy_opens : o.MachineID = a /\ o.Message = "faulty"

\* A step in which ScrapeOnce returns before it calls the store: its fetch
\* failed with no item retrieved, or UpsertDormsAndMachines failed.
AbortedEarly ==
    /\ phase = "idle"
    /\ fetch'.step \in {"aborted", "upsert failed"}

\* C31: a scrape cycle whose fetch failed with zero items retrieved does not
\* reach UpdateOccupancy, and a cycle that aborts early, for that reason or
\* because UpsertDormsAndMachines returned an error, calls neither
\* UpdateOccupancy nor Dispatch: the open-session table, the history table
\* and the job queue are as they were.
C31_AbortedCycleChangesNothing ==
    [][/\ Reconciled => ~(fetch'.err /\ allItems' = <<>>)
       /\ AbortedEarly =>
             /\ cycles' = cycles /\ phase' = "idle"
             /\ calls' = calls /\ dispatcher' = dispatcher
             /\ dispatched' = dispatched
             /\ occupancy_opens' = occupancy_opens
             /\ occupancy_histories' = occupancy_histories
             /\ jobs' = jobs]_vars

\* A cycle aborted on a failed fetch with nothing retrieved, while a machine
\* the upstream lists has an open session from the cycle before.
C31_Witness ==
    /\ fetch.step = "aborted" /\ fetch.err
    /\ phase = "idle" /\ cycles = 1
    /\ \E o \in occupancy_opens : o.MachineID \in fetch.unfetched

\* C32: a cycle whose fetch succeeds but yields zero items runs
\* UpdateOccupancy with the empty snapshot: when it commits, every open
\* session has been archived and removed, the open-session table is empty
\* and so is the notify list.
C32_EmptySnapshotClosesAll ==
    [][(Committed /\ ~fetch'.err /\ allItems' = <<>>) =>
          /\ fetch'.step = "reconciled"
          /\ occupancy_opens' = {}
          /\ Archived = {historyRecord(o, now') : o \in occupancy_opens}
          /\ \A o \in occupancy_opens : Cardinality(ArchivedFor(o.MachineID)) = 1
          /\ notifyIDs' = <<>>]_vars

\* The fetch succeeded with no item while both machines had an open session:
\* both sessions are in the history table and the open-session table is
\* empty.
C32_Witness ==
    /\ phase = "returned" /\ ~err
    /\ fetch.step = "reconciled" /\ ~fetch.err /\ allItems = <<>>
    /\ {r.MachineID : r \in currentOpenRecords} = Machines
    /\ occupancy_opens = {}
    /\ \A r \in currentOpenRecords : historyRecord(r, now) \in occupancy_histories
    /\ notifyIDs = <<>>

\* The cycle's now is strictly later than the observed-at of every session
\* the step closes or overwrites.
NowAfterClosedSessions ==
    \A id \in Machines :
        ClosedOrOverwritten(id) => now' > OldSession(id).ObservedAt

\* C33: every history record a cycle writes has period-start < period-end,
\* provided the cycle's now is strictly later than the observed-at of each
\* session it closes.
C33_PeriodValid ==
    [][(Reconciled /\ NowAfterClosedSessions) =>
          \A h \in Archived : h.PeriodStart < h.PeriodEnd]_vars

\* A cycle closed a session without remainder after its observed-at and one
\* with a remainder: the first period ends now, the second at the predicted
\* time, both after their start.
C33_Witness ==
    /\ phase = "returned" /\ ~err
    /\ \A r \in currentOpenRecords : r.ObservedAt < now
    /\ \E r, q \in currentOpenRecords :
        /\ r.TimeRemaining = 0 /\ q.TimeRemaining > 0
        /\ historyRecord(r, now) \in occupancy_histories
        /\ historyRecord(q, now) \in occupancy_histories
        /\ historyRecord(r, now).PeriodEnd = now
        /\ historyRecord(q, now).PeriodEnd = q.ObservedAt + q.TimeRemaining

\* The step archives a session under a history key that exists already.
HistoryKeyConflict ==
    \E id \in Machines :
        /\ AbsentFromSnapshot(id) \/ StatusChanged(id)
        /\ \E h \in occupancy_histories :
              h.MachineID = id /\ h.ObservedAt = now'

\* C34: for any snapshot, one that lists the same machine ID more than once
\* included, UpdateOccupancy creates no open-session row for a machine that
\* has one in the same transaction: a call that meets no existing history
\* key does not fail, and it ends with at most one open session per machine.
C34_DuplicateIDsNeverConflict ==
    [][(Reconciled /\ ~HistoryKeyConflict) =>
          /\ ~err'
          /\ \A a, b \in occupancy_opens' : a.MachineID = b.MachineID => a = b]_vars

\* C35: every open-session row refers to a machine that exists in the table
\* machines: a machine whose metadata upsert was skipped never gets an open
\* session.
C35_OpenSessionsHaveMachines ==
    \A o \in occupancy_opens : o.MachineID \in machine_rows

\* C36: a fetch error never causes an open session to be archived or
\* deleted: in a cycle whose fetch loop ended with an error, no session of a
\* machine absent from the items retrieved is closed.
C36_FetchErrorClosesNoSession ==
    [][(Reconciled /\ fetch'.err) =>
          \A id \in Machines :
              AbsentFromSnapshot(id) =>
                  /\ ArchivedFor(id) = {}
                  /\ OldSession(id) \in occupancy_opens']_vars

C38_RunReturnsAfterCancel ==
    /\ cancelled ~> (run.pc = "stopped")
    /\ (dispatcher.pc = "sending") ~> (dispatcher.pc = "idle")

\* A step of a worker goroutine, and the tables of the occupancy store.
WorkerStep == workers' # workers

\* C39: the two concurrency domains write disjoint state: a step of a worker
\* processing a notification job never changes the open-session or history
\* tables, and the only change it makes to a table is the deletion of
\* subscriptions; a call of UpdateOccupancy never changes the subscriptions,
\* the job queue or a worker.
C39_DisjointWrites ==
    [][/\ WorkerStep =>
            /\ occupancy_opens' = occupancy_opens
            /\ occupancy_histories' = occupancy_histories
            /\ machine_rows' = machine_rows
            /\ push_subscriptions' \subseteq push_subscriptions
            /\ subscription_machine_mapping' \subseteq subscription_machine_mapping
       /\ UpdateOccupancyReturns =>
            /\ push_subscriptions' = push_subscriptions
            /\ subscription_machine_mapping' = subscription_machine_mapping
            /\ subscription_keys' = subscription_keys
            /\ jobs' = jobs
            /\ workers' = workers
            /\ dispatcher' = dispatcher]_vars

\* A worker has deleted the subscription while sessions were open and
\* archived, and UpdateOccupancy has returned again while a job was queued.
C39_Witness ==
    /\ push_subscriptions = {}
    /\ occupancy_opens # {}
    /\ occupancy_histories # {}
    /\ phase = "returned"
    /\ cycles > 2
    /\ jobs # <<>>

\* The requests GetLimiter has returned a limiter to.
Limited == {q \in RequestIDs : requests[q].pc \in {"Allow", "Next", "Aborted"}}

\* C40: under any interleaving of concurrent requests, all requests from the
\* same client IP are rate-limited by one and the same limiter: GetLimiter
\* never hands two different limiter instances to two requests of the same
\* IP, and no more requests of one IP are let through than the burst.
C40_OneLimiterPerIP ==
    /\ \A p, q \in Limited :
          requests[p].ip = requests[q].ip =>
             requests[p].limiter = requests[q].limiter
    /\ \A ip \in ClientIPs :
          Cardinality({q \in RequestIDs : /\ requests[q].pc = "Next"
                                          /\ requests[q].ip = ip}) <= Burst
====
